---- MODULE Spec2Model ----
(***************************************************************************)
(* A model of the GraphRAG indexing service: the job store and job queue   *)
(* (graphrag_service), the indexer worker with its startup recovery and    *)
(* the pipeline orchestrator (graphrag_indexer), and the upload-session    *)
(* protocol of the API (graphrag_api).                                     *)
(*                                                                         *)
(* Wall-clock values are abstracted: a timestamp is either unset (None) or *)
(* set (Now); duration_sec, which is computed from two timestamps, is not  *)
(* modelled.  Identifiers minted with uuid4 are drawn from the finite set  *)
(* Jobs, never reusing one.                                                *)
(***************************************************************************)
EXTENDS Integers, Sequences, FiniteSets, TLC

\* ------------------------------------------------------------------ bounds
Workers == {"w1", "w2"}
Jobs == {"j1", "j2"}
\* the job_ids of the jobs that are followed through the workers
WorkerJobs == {"j1"}
\* request slots of upload_part: requests that can be in flight together
PartRequests == {"p1", "p2"}
\* files of one upload / documents of one raw directory
MaxDocs == 2
\* rows per embedding batch (the max_embedding_batch setting)
max_embedding_batch == 1
\* files per upload_part request (the upload_session_batch_size setting)
upload_session_batch_size == 2

\* ------------------------------------------------------------- job states
None == "None"
Now == "now"
\* JobError.path of an error that belongs to no document
NoPath == 0
\* the value of a store key that was never set
Absent == [absent |-> TRUE]

\* the fields the JobStats dataclass declares
JobStatsFields == {"total_files", "processed_files", "nodes", "edges", "vector_chunks"}

JobStats(total) ==
    [f \in JobStatsFields |-> IF f = "total_files" THEN total ELSE 0]

JobState(status, stats) ==
    [status |-> status, stats |-> stats, errors |-> <<>>,
     started_at |-> None, finished_at |-> None]

JobError(message, path) == [message |-> message, path |-> path]

\* an attribute assignment on a stats object: creates the attribute when the
\* dataclass does not declare it
SetAttr(stats, name, value) ==
    [f \in DOMAIN stats \cup {name} |-> IF f = name THEN value ELSE stats[f]]

HasAttr(stats, name) == name \in DOMAIN stats

\* dataclasses.asdict keeps the declared fields only
asdict_stats(stats) == [f \in JobStatsFields |-> stats[f]]

to_primitive(state) ==
    [status |-> state.status,
     stats |-> asdict_stats(state.stats),
     errors |-> state.errors,
     started_at |-> state.started_at,
     finished_at |-> state.finished_at]

from_primitive(payload) ==
    [status |-> payload.status,
     stats |-> [f \in JobStatsFields |-> payload.stats[f]],
     errors |-> payload.errors,
     started_at |-> payload.started_at,
     finished_at |-> payload.finished_at]

VARIABLES
    store,      \* job store: job_id -> persisted JobState, or Absent
    queue,      \* job queue: sequence of job_ids (the IndexJob payloads)
    qlog,       \* the enqueue number of each queue entry, and the enqueues so far
    rawExists,  \* job_id -> whether <workspace>/<collection>/<job_id>/raw is a directory
    rawFiles,   \* job_id -> the relative paths of the files in that directory
    apiStage,   \* job_id -> how far upload_complete got with the job it minted
    wpc,        \* worker -> position in Worker.__init__ / Worker.run / IndexingPipeline.run
    stopped,    \* worker -> Worker._stopped
    qsnap,      \* worker -> queue_job_ids of the running recovery
    todo,       \* worker -> job_ids iter_states has still to yield
    requeued,   \* worker -> the job_ids its recovery enqueued, in order
    cur,        \* worker -> job_id of the dequeued IndexJob
    js,         \* worker -> job_state of the pipeline run
    docs,       \* worker -> number of documents load_documents returned
    acc,        \* worker -> sizes of nodes_by_key, edges_keyed, chunks
    runlog,     \* worker -> what the current (or last) run did
    session,    \* "none", "live" (the session directory exists) or "removed"
    meta,       \* the persisted meta.json of the session, or Absent
    tmp,        \* the relative paths of the files under the session's tmp/
    part,       \* upload_part request -> its position and local variables
    resp,       \* the response the API sent last
    nodes,      \* the GraphNodes the loop of _merge_nodes has handled, in order
    nodes_by_key,  \* NodeKey -> properties of the node kept under that key
    collection,  \* job.collection of the run whose edges are merged, or None before it
    edge_docs,  \* the edge lists of the documents the extraction loop has handled, in order
    edges_keyed,  \* (start, type, end) -> properties of the edge kept under that triple
    writer,  \* the Neo4jGraphWriter: its setting, max_attempts, the batch and attempt it is at
    batch_trace,  \* graph batch -> the calls of operation(), the failed ones and the neo4j_batch_failed logs
    embedder,  \* the OpenAIEmbeddingClient: max_attempts, backoff, the batch and attempt it is at
    embed_trace,  \* embedding batch -> the calls of the API and the sleeps between them
    texts,  \* the chunk texts handed to embed_texts_iter
    batcher,  \* embed_texts_iter: batch_size, batch_start and where it is
    yielded,  \* the number of rows of each batch yielded so far
    all_vectors,  \* the rows _compute_embeddings has received, in order
    embedded,  \* job_state.stats.embedded_chunks as _compute_embeddings counts it
    chunker,  \* _chunk_text: its arguments and where it is
    text_segments,  \* the segments list of _chunk_text
    validation,  \* the last call of SchemaValidator.validate: the schema flags, the extraction and the outcome
    faiss_store,  \* the FaissVectorStore: the ids given to build, its _ids and metadata, and the call it is after
    chunks_jsonl,  \* the lines of the metadata sidecar file
    graph,  \* the graph store: its nodes (in creation order) and its relationships
    upsert_run,  \* the upsert in progress: its input, its position, the runs made and the store they found and left
    neo4j_db,  \* the nodes of the database and the write transactions it has committed, in order
    upsert_call,  \* one call of upsert(nodes, edges): its arguments, the groups and batches still to run, its position
    path_call  \* one uploaded file name: the name, what _safe_relative_path made of it, and where the file was put

vars == <<store, queue, qlog, rawExists, rawFiles, apiStage, wpc, stopped,
          qsnap, todo, requeued, cur, js, docs, acc, runlog,
          session, meta, tmp, part, resp, nodes, nodes_by_key,
          collection, edge_docs, edges_keyed,
          writer, batch_trace,
          embedder, embed_trace,
          texts, batcher, yielded, all_vectors, embedded,
          chunker, text_segments,
          validation,
          faiss_store, chunks_jsonl,
          graph, upsert_run,
          neo4j_db, upsert_call,
          path_call>>

\* the state of the library functions that are checked on their own
mergeVars == <<nodes, nodes_by_key>>
edgeVars == <<collection, edge_docs, edges_keyed>>
writerVars == <<writer, batch_trace>>
embedderVars == <<embedder, embed_trace>>
batcherVars == <<texts, batcher, yielded, all_vectors, embedded>>
chunkerVars == <<chunker, text_segments>>
validatorVars == <<validation>>
vectorVars == <<faiss_store, chunks_jsonl>>
graphVars == <<graph, upsert_run>>
txVars == <<neo4j_db, upsert_call>>
pathVars == <<path_call>>
libVars == <<mergeVars, edgeVars, writerVars, embedderVars, batcherVars, chunkerVars, validatorVars, vectorVars, graphVars, txVars, pathVars>>


\* ------------------------------------------------------------ file names
\* A file name is the sequence of its components between separators; a
\* component is empty, ".", ".." or a name with an extension.
Component(kind, id, ext) == [kind |-> kind, id |-> id, ext |-> ext]

File(i) == Component("name", i, ".txt")

ALLOWED_EXTENSIONS == {".bsl", ".xml", ".html", ".htm", ".txt"}

\* ------------------------------------------------------------ graph writer
MaxGraphBatches == 3
GraphBatches == 1..MaxGraphBatches

\* values of the setting neo4j_write_max_attempts
AttemptSettings == 0..3

NoWriter == [setting |-> 0, max_attempts |-> 0, batch |-> 0, attempt |-> 0, pc |-> "new"]
NoCalls == [calls |-> 0, failed |-> 0, logs |-> 0]

\* ------------------------------------------------------------ embedding client
MaxEmbedBatches == 2
EmbedBatches == 1..MaxEmbedBatches

\* values of the settings embedding_retry_attempts and embedding_retry_backoff
RetrySettings == 0..3
BackoffSettings == {1, 2}

NoEmbedder == [max_attempts |-> 0, backoff |-> 0, batch |-> 0, attempt |-> 0, pc |-> "new"]
NoRequests == [calls |-> 0, sleeps |-> <<>>]

MaxExtractedEdges == 2

\* ------------------------------------------------------------ graph store
MaxUpsertNodes == 2
MaxUpsertEdges == 1
MaxUpsertRuns == 2
EmptyGraph == [nodes |-> <<>>, edges |-> <<>>]

\* ------------------------------------------------------------ job store
\* (mutant of save) nothing is written
save_skipped(st, job_id, state) == st

save(st, job_id, state) == [st EXCEPT ![job_id] = to_primitive(state)]

get(st, job_id) == st[job_id]

\* ------------------------------------------------------------ job queue
\* (mutant of enqueue) the payload is pushed twice
enqueue_twice(q, job_id) == Append(Append(q, job_id), job_id)

\* (mutant of enqueue) the payload is pushed on the left
enqueue_left(q, job_id) == <<job_id>> \o q

\* rpush
enqueue(q, job_id) == Append(q, job_id)

\* the log after an enqueue: the entry gets the next enqueue number
enqueued(log) ==
    [entries |-> enqueue(log.entries, log.enqueued + 1),
     enqueued |-> log.enqueued + 1]

\* the log after a dequeue that returned an item
dequeued(log) == [log EXCEPT !.entries = Tail(@)]

\* the set of job_ids of the queued IndexJobs
list_job_ids(q) == {q[i] : i \in 1..Len(q)}

\* the job_ids whose key exists under the job-state prefix
iter_states(st) == {j \in Jobs : st[j] # Absent}

\* --------------------------------------------------------------- workers
RunPcs == {"run", "load", "extract", "embed", "graph", "graph_stats",
           "vector_phase", "vector", "finishing", "except"}

InRun(w) == wpc[w] \in RunPcs

NoAcc == [nodes |-> 0, edges |-> 0, chunks |-> 0]

\* an upload_part request that has not been received
NoPart == [pc |-> "idle", files |-> <<>>, meta |-> Absent, planned |-> <<>>,
           persisted |-> 0]

NoRun == [embed |-> 0, graph |-> 0, vector |-> 0, cause |-> "none",
          fatalAt |-> 0, soft |-> {}, missing |-> FALSE, result |-> "none",
          saved |-> Absent]

Init ==
    /\ store = [j \in Jobs |-> Absent]
    /\ queue = <<>>
    /\ qlog = [entries |-> <<>>, enqueued |-> 0]
    /\ rawExists = [j \in Jobs |-> FALSE]
    /\ rawFiles = [j \in Jobs |-> {}]
    /\ apiStage = [j \in Jobs |-> "none"]
    /\ wpc = [w \in Workers |-> "off"]
    /\ stopped = [w \in Workers |-> FALSE]
    /\ qsnap = [w \in Workers |-> {}]
    /\ todo = [w \in Workers |-> {}]
    /\ requeued = [w \in Workers |-> <<>>]
    /\ cur = [w \in Workers |-> None]
    /\ js = [w \in Workers |-> Absent]
    /\ docs = [w \in Workers |-> 0]
    /\ acc = [w \in Workers |-> NoAcc]
    /\ runlog = [w \in Workers |-> NoRun]
    /\ session = "none"
    /\ meta = Absent
    /\ tmp = {}
    /\ part = [r \in PartRequests |-> NoPart]
    /\ resp = [handler |-> "none", request |-> "none", code |-> 0, seq |-> 0]
    /\ nodes = <<>>
    /\ nodes_by_key = <<>>
    /\ collection = None
    /\ edge_docs = <<>>
    /\ edges_keyed = <<>>
    /\ writer = NoWriter
    /\ batch_trace = [b \in GraphBatches |-> NoCalls]
    /\ embedder = NoEmbedder
    /\ embed_trace = [b \in EmbedBatches |-> NoRequests]
    /\ texts = <<>>
    /\ batcher = [batch_size |-> 0, batch_start |-> 0, pc |-> "new"]
    /\ yielded = <<>>
    /\ all_vectors = <<>>
    /\ embedded = 0
    /\ chunker = [text |-> <<>>, target_chars |-> 0, overlap_chars |-> 0, pc |-> "new"]
    /\ text_segments = <<>>
    /\ validation = [pc |-> "new"]
    /\ faiss_store = [pc |-> "new", given |-> <<>>, ids |-> <<>>, metadata |-> <<>>]
    /\ chunks_jsonl = <<>>
    /\ graph = EmptyGraph
    /\ upsert_run = [pc |-> "new", nodes |-> <<>>, edges |-> <<>>, runs |-> 0,
                     before |-> EmptyGraph, first |-> EmptyGraph]
    /\ neo4j_db = [nodes |-> {}, log |-> <<>>]
    /\ upsert_call = [pc |-> "new", nodes |-> <<>>, edges |-> <<>>, size |-> 0,
                      groups |-> <<>>, batches |-> <<>>, kind |-> None, id |-> None]
    /\ path_call = [pc |-> "new", name |-> <<>>, ok |-> FALSE, rel_path |-> <<>>,
                    target |-> <<>>]

sessVars == <<session, meta, tmp, part, resp>>
apiVars == <<rawFiles, apiStage, sessVars>>
runVars == <<cur, js, docs, acc, runlog>>
recVars == <<qsnap, todo, requeued>>
serviceVars == <<store, queue, qlog, rawExists, apiVars, wpc, stopped, recVars, runVars>>
except_mergeVars == <<serviceVars, edgeVars, writerVars, embedderVars, batcherVars, chunkerVars, validatorVars, vectorVars, graphVars, txVars, pathVars>>
except_edgeVars == <<serviceVars, mergeVars, writerVars, embedderVars, batcherVars, chunkerVars, validatorVars, vectorVars, graphVars, txVars, pathVars>>
except_writerVars == <<serviceVars, mergeVars, edgeVars, embedderVars, batcherVars, chunkerVars, validatorVars, vectorVars, graphVars, txVars, pathVars>>
except_embedderVars == <<serviceVars, mergeVars, edgeVars, writerVars, batcherVars, chunkerVars, validatorVars, vectorVars, graphVars, txVars, pathVars>>
except_batcherVars == <<serviceVars, mergeVars, edgeVars, writerVars, embedderVars, chunkerVars, validatorVars, vectorVars, graphVars, txVars, pathVars>>
except_chunkerVars == <<serviceVars, mergeVars, edgeVars, writerVars, embedderVars, batcherVars, validatorVars, vectorVars, graphVars, txVars, pathVars>>
except_validatorVars == <<serviceVars, mergeVars, edgeVars, writerVars, embedderVars, batcherVars, chunkerVars, vectorVars, graphVars, txVars, pathVars>>
except_vectorVars == <<serviceVars, mergeVars, edgeVars, writerVars, embedderVars, batcherVars, chunkerVars, validatorVars, graphVars, txVars, pathVars>>
except_graphVars == <<serviceVars, mergeVars, edgeVars, writerVars, embedderVars, batcherVars, chunkerVars, validatorVars, vectorVars, txVars, pathVars>>
except_txVars == <<serviceVars, mergeVars, edgeVars, writerVars, embedderVars, batcherVars, chunkerVars, validatorVars, vectorVars, graphVars, pathVars>>
except_pathVars == <<serviceVars, mergeVars, edgeVars, writerVars, embedderVars, batcherVars, chunkerVars, validatorVars, vectorVars, graphVars, txVars>>

\* ---- the job-creating tail of upload_complete, seen from the workers
\* the files of a session were moved into a fresh raw directory
UploadMoved(j, n) ==
    /\ apiStage[j] = "none"
    /\ apiStage' = [apiStage EXCEPT ![j] = "moved"]
    /\ rawExists' = [rawExists EXCEPT ![j] = TRUE]
    /\ rawFiles' = [rawFiles EXCEPT ![j] = {<<File(i)>> : i \in 1..n}]
    /\ UNCHANGED <<store, queue, qlog, sessVars, wpc, stopped, libVars, recVars, runVars>>

\* job_store.save(job_state) of the new PENDING state
ApiSaveJob(j) ==
    /\ apiStage[j] = "moved"
    /\ apiStage' = [apiStage EXCEPT ![j] = "saved"]
    /\ store' = save(store, j, JobState("PENDING", JobStats(Cardinality(rawFiles[j]))))
    /\ UNCHANGED <<queue, qlog, rawExists, rawFiles, sessVars, wpc, stopped, libVars, recVars, runVars>>

\* job_queue.enqueue(IndexJob(...))
ApiEnqueue(j) ==
    /\ apiStage[j] = "saved"
    /\ apiStage' = [apiStage EXCEPT ![j] = "enqueued"]
    /\ queue' = enqueue(queue, j)
    /\ qlog' = enqueued(qlog)
    /\ UNCHANGED <<store, rawExists, rawFiles, sessVars, wpc, stopped, libVars, recVars, runVars>>

\* the raw directory of a job is removed from the workspace
RemoveRaw(j) ==
    /\ rawExists[j]
    /\ rawExists' = [rawExists EXCEPT ![j] = FALSE]
    /\ UNCHANGED <<store, queue, qlog, apiVars, wpc, stopped, libVars, recVars, runVars>>

\* ---- Worker.__init__ and _recover_incomplete_jobs
\* A worker process is started once.  A process that is killed is a worker
\* that takes no further step, and its restart is the start of the next worker.
WorkerStart(w) ==
    /\ wpc[w] = "off"
    /\ stopped' = [stopped EXCEPT ![w] = FALSE]
    /\ qsnap' = [qsnap EXCEPT ![w] = list_job_ids(queue)]
    /\ todo' = [todo EXCEPT ![w] = iter_states(store)]
    /\ wpc' = [wpc EXCEPT ![w] = "recover"]
    /\ UNCHANGED <<store, queue, qlog, rawExists, apiVars, libVars, requeued, runVars>>

\* whether the recovery loop re-queues the state it was handed
Recoverable(state, job_id, queue_job_ids) ==
    /\ state # Absent
    /\ state.status \in {"PENDING", "RUNNING"}
    /\ job_id \notin queue_job_ids
    /\ rawExists[job_id]

\* (mutant of Recovered) started_at is not cleared
Recovered_keeps_started(state) ==
    [state EXCEPT !.status = "PENDING", !.finished_at = None]

Recovered(state) ==
    [state EXCEPT !.status = "PENDING", !.started_at = None, !.finished_at = None]

\* one iteration of the loop over iter_states()
RecoverState(w, j) ==
    /\ wpc[w] = "recover"
    /\ j \in todo[w]
    /\ todo' = [todo EXCEPT ![w] = @ \ {j}]
    /\ IF Recoverable(get(store, j), j, qsnap[w])
       THEN /\ store' = save(store, j, Recovered(from_primitive(get(store, j))))
            /\ queue' = enqueue(queue, j)
            /\ qlog' = enqueued(qlog)
            /\ qsnap' = [qsnap EXCEPT ![w] = @ \cup {j}]
            /\ requeued' = [requeued EXCEPT ![w] = Append(@, j)]
       ELSE UNCHANGED <<store, queue, qlog, qsnap, requeued>>
    /\ UNCHANGED <<rawExists, apiVars, wpc, stopped, libVars, runVars>>

\* __init__ returns and run() enters its loop
RecoverDone(w) ==
    /\ wpc[w] = "recover"
    /\ todo[w] = {}
    /\ wpc' = [wpc EXCEPT ![w] = "loop"]
    /\ UNCHANGED <<store, queue, qlog, rawExists, apiVars, stopped, libVars, recVars, runVars>>

\* ---- Worker.run, Worker.stop
\* SIGTERM or SIGINT once main() has installed handle_signal
Stop(w) ==
    /\ wpc[w] \in RunPcs \cup {"loop", "dequeue"}
    /\ ~stopped[w]
    /\ stopped' = [stopped EXCEPT ![w] = TRUE]
    /\ UNCHANGED <<store, queue, qlog, rawExists, apiVars, wpc, libVars, recVars, runVars>>

\* (mutant of keeps_looping) the loop ends after the first run
keeps_looping_once(w) == ~stopped[w] /\ runlog[w].result = "none"

\* (mutant of keeps_looping) the flag is not looked at
keeps_looping_always(w) == TRUE

\* the condition of the while loop of run()
keeps_looping(w) == ~stopped[w]

\* the loop condition is false: run() returns
Exit(w) ==
    /\ wpc[w] = "loop"
    /\ ~keeps_looping(w)
    /\ wpc' = [wpc EXCEPT ![w] = "exited"]
    /\ UNCHANGED <<store, queue, qlog, rawExists, apiVars, stopped, libVars, recVars, runVars>>

\* blpop returned an item
Dequeue(w) ==
    /\ wpc[w] = "loop"
    /\ ~stopped[w]
    /\ queue # <<>>
    /\ cur' = [cur EXCEPT ![w] = Head(queue)]
    /\ queue' = Tail(queue)
    /\ qlog' = dequeued(qlog)
    /\ wpc' = [wpc EXCEPT ![w] = "run"]
    /\ UNCHANGED <<store, rawExists, apiVars, stopped, libVars, recVars, js, docs, acc, runlog>>

\* blpop timed out: sleep and continue
DequeueEmpty(w) ==
    /\ wpc[w] = "loop"
    /\ ~stopped[w]
    /\ queue = <<>>
    /\ UNCHANGED vars

\* ---- IndexingPipeline.run
\* job_state is mutated and handed to job_store.save
Persist(w, state, log) ==
    /\ js' = [js EXCEPT ![w] = state]
    /\ store' = save(store, cur[w], state)
    /\ runlog' = [runlog EXCEPT ![w] = [log EXCEPT !.saved = to_primitive(state)]]

\* the state run() starts from: the stored one, or a new JobState
LoadedOrNew(job_id) ==
    IF get(store, job_id) = Absent
    THEN JobState("PENDING", JobStats(0))
    ELSE from_primitive(get(store, job_id))

\* (mutant of Started) the status is left as it was loaded
Started_keeps_status(state) ==
    [state EXCEPT !.started_at = Now,
                  !.errors = <<>>,
                  !.stats = JobStats(state.stats.total_files)]

\* status, started_at, errors and stats as run() sets them before its first save
Started(state) ==
    [state EXCEPT !.status = "RUNNING",
                  !.started_at = Now,
                  !.errors = <<>>,
                  !.stats = JobStats(state.stats.total_files)]

RunStart(w) ==
    /\ wpc[w] = "run"
    /\ Persist(w, Started(LoadedOrNew(cur[w])), NoRun)
    /\ docs' = [docs EXCEPT ![w] = 0]
    /\ acc' = [acc EXCEPT ![w] = NoAcc]
    /\ wpc' = [wpc EXCEPT ![w] = "load"]
    /\ UNCHANGED <<queue, qlog, rawExists, apiVars, stopped, libVars, recVars, cur>>

\* load_documents: an absent root yields no document
load_documents(job_id) ==
    IF rawExists[job_id] THEN Cardinality(rawFiles[job_id]) ELSE 0

LoadOk(w) ==
    /\ wpc[w] = "load"
    /\ LET n == load_documents(cur[w]) IN
       /\ docs' = [docs EXCEPT ![w] = n]
       /\ IF js[w].stats.total_files = 0
          THEN Persist(w, [js[w] EXCEPT !.stats = SetAttr(@, "total_files", n)],
                       [runlog[w] EXCEPT !.missing = ~rawExists[cur[w]]])
          ELSE /\ runlog' = [runlog EXCEPT ![w].missing = ~rawExists[cur[w]]]
               /\ UNCHANGED <<js, store>>
    /\ wpc' = [wpc EXCEPT ![w] = "extract"]
    /\ UNCHANGED <<queue, qlog, rawExists, apiVars, stopped, libVars, recVars, cur, acc>>

\* reading a file of the raw directory raises
LoadFail(w) ==
    /\ wpc[w] = "load"
    /\ load_documents(cur[w]) > 0
    /\ runlog' = [runlog EXCEPT ![w].cause = "load"]
    /\ wpc' = [wpc EXCEPT ![w] = "except"]
    /\ UNCHANGED <<store, queue, qlog, rawExists, apiVars, stopped, libVars, recVars, cur, js, docs, acc>>

DocOutcomes == {"ok", "soft", "fatal"}

\* (mutant of after_document) a SchemaValidationError is handled like any other
after_document_swallows(outcome) == "extract"

\* where the loop body leaves the run: a SchemaValidationError is re-raised
after_document(outcome) == IF outcome = "fatal" THEN "except" ELSE "extract"

\* (mutant of document_errors) the JobError is appended without its path
document_errors_no_path(errors, outcome, rel_path) ==
    IF outcome = "soft" THEN Append(errors, JobError("document", NoPath)) ELSE errors

\* errors after the except clauses of the loop body
document_errors(errors, outcome, rel_path) ==
    IF outcome = "soft" THEN Append(errors, JobError("document", rel_path)) ELSE errors

\* the accumulators after the try block of the loop body
merge_document(a, outcome) ==
    IF outcome = "ok"
    THEN [nodes |-> a.nodes + 1, edges |-> a.edges + 1, chunks |-> a.chunks + 1]
    ELSE a

\* one iteration of the loop over documents, its finally clause included
ProcessDoc(w, outcome) ==
    /\ wpc[w] = "extract"
    /\ js[w].stats.processed_files < docs[w]
    /\ LET d == js[w].stats.processed_files + 1
           state == [js[w] EXCEPT
                        !.errors = document_errors(@, outcome, d),
                        !.stats = SetAttr(@, "processed_files", @["processed_files"] + 1)]
           log == [runlog[w] EXCEPT
                        !.soft = IF outcome = "soft" THEN @ \cup {d} ELSE @,
                        !.cause = IF outcome = "fatal" THEN "validation" ELSE @,
                        !.fatalAt = IF outcome = "fatal" THEN d ELSE @]
       IN /\ Persist(w, state, log)
          /\ acc' = [acc EXCEPT ![w] = merge_document(@, outcome)]
    /\ wpc' = [wpc EXCEPT ![w] = after_document(outcome)]
    /\ UNCHANGED <<queue, qlog, rawExists, apiVars, stopped, libVars, recVars, cur, docs>>

\* chunking done: vector_chunks, phase EMBEDDING, embedded_chunks reset
StartEmbedding(w) ==
    /\ wpc[w] = "extract"
    /\ js[w].stats.processed_files = docs[w]
    /\ LET s1 == SetAttr(js[w].stats, "vector_chunks", acc[w].chunks)
           s2 == SetAttr(s1, "phase", "EMBEDDING")
           s3 == SetAttr(s2, "embedded_chunks", 0)
       IN Persist(w, [js[w] EXCEPT !.stats = s3], runlog[w])
    /\ wpc' = [wpc EXCEPT ![w] = "embed"]
    /\ UNCHANGED <<queue, qlog, rawExists, apiVars, stopped, libVars, recVars, cur, docs, acc>>

Min(a, b) == IF a < b THEN a ELSE b

\* rows of the next batch embed_texts_iter yields
batch_rows(state) ==
    Min(max_embedding_batch, state.stats.vector_chunks - state.stats.embedded_chunks)

\* a batch came back: embedded_chunks grows by its rows
EmbedBatchOk(w) ==
    /\ wpc[w] = "embed"
    /\ js[w].stats.embedded_chunks < js[w].stats.vector_chunks
    /\ Persist(w,
               [js[w] EXCEPT !.stats = SetAttr(@, "embedded_chunks",
                                               @["embedded_chunks"] + batch_rows(js[w]))],
               [runlog[w] EXCEPT !.embed = @ + 1])
    /\ UNCHANGED <<queue, qlog, rawExists, apiVars, wpc, stopped, libVars, recVars, cur, docs, acc>>

\* the retries of a batch are exhausted: _embed_batch raises
EmbedBatchFail(w) ==
    /\ wpc[w] = "embed"
    /\ js[w].stats.embedded_chunks < js[w].stats.vector_chunks
    /\ runlog' = [runlog EXCEPT ![w].embed = @ + 1, ![w].cause = "embedding"]
    /\ wpc' = [wpc EXCEPT ![w] = "except"]
    /\ UNCHANGED <<store, queue, qlog, rawExists, apiVars, stopped, libVars, recVars, cur, js, docs, acc>>

\* totals set, written counters reset, phase GRAPH_WRITE
StartGraphWrite(w) ==
    /\ wpc[w] = "embed"
    /\ js[w].stats.embedded_chunks = js[w].stats.vector_chunks
    /\ LET s1 == SetAttr(js[w].stats, "graph_nodes_total", acc[w].nodes)
           s2 == SetAttr(s1, "graph_edges_total", acc[w].edges)
           s3 == SetAttr(s2, "graph_nodes_written", 0)
           s4 == SetAttr(s3, "graph_edges_written", 0)
           s5 == SetAttr(s4, "phase", "GRAPH_WRITE")
       IN Persist(w, [js[w] EXCEPT !.stats = s5], runlog[w])
    /\ wpc' = [wpc EXCEPT ![w] = "graph"]
    /\ UNCHANGED <<queue, qlog, rawExists, apiVars, stopped, libVars, recVars, cur, docs, acc>>

mark_written_skipped(stats) == stats

\* written counters set to the totals
mark_written(stats) ==
    SetAttr(SetAttr(stats, "graph_nodes_written", stats.graph_nodes_total),
            "graph_edges_written", stats.graph_edges_total)

\* writer.upsert returned: written counters set to the totals
WriteGraphOk(w) ==
    /\ wpc[w] = "graph"
    /\ Persist(w, [js[w] EXCEPT !.stats = mark_written(@)],
               [runlog[w] EXCEPT !.graph = @ + 1])
    /\ wpc' = [wpc EXCEPT ![w] = "graph_stats"]
    /\ UNCHANGED <<queue, qlog, rawExists, apiVars, stopped, libVars, recVars, cur, docs, acc>>

\* the retries of a graph batch are exhausted: upsert raises
WriteGraphFail(w) ==
    /\ wpc[w] = "graph"
    /\ runlog' = [runlog EXCEPT ![w].graph = @ + 1, ![w].cause = "graph"]
    /\ wpc' = [wpc EXCEPT ![w] = "except"]
    /\ UNCHANGED <<store, queue, qlog, rawExists, apiVars, stopped, libVars, recVars, cur, js, docs, acc>>

\* stats.nodes and stats.edges
RecordGraphStats(w) ==
    /\ wpc[w] = "graph_stats"
    /\ LET s1 == SetAttr(js[w].stats, "nodes", acc[w].nodes)
           s2 == SetAttr(s1, "edges", acc[w].edges)
       IN Persist(w, [js[w] EXCEPT !.stats = s2], runlog[w])
    /\ wpc' = [wpc EXCEPT ![w] = "vector_phase"]
    /\ UNCHANGED <<queue, qlog, rawExists, apiVars, stopped, libVars, recVars, cur, docs, acc>>

\* phase VECTOR_INDEX
StartVectorIndex(w) ==
    /\ wpc[w] = "vector_phase"
    /\ Persist(w, [js[w] EXCEPT !.stats = SetAttr(@, "phase", "VECTOR_INDEX")], runlog[w])
    /\ wpc' = [wpc EXCEPT ![w] = "vector"]
    /\ UNCHANGED <<queue, qlog, rawExists, apiVars, stopped, libVars, recVars, cur, docs, acc>>

\* _build_vector_index returns at once when there is nothing to index
builds_index(a) == a.chunks > 0

\* the index is built and saved (or skipped); phase FINALIZING
BuildVectorIndexOk(w) ==
    /\ wpc[w] = "vector"
    /\ Persist(w, [js[w] EXCEPT !.stats = SetAttr(@, "phase", "FINALIZING")],
               [runlog[w] EXCEPT !.vector = IF builds_index(acc[w]) THEN @ + 1 ELSE @])
    /\ wpc' = [wpc EXCEPT ![w] = "finishing"]
    /\ UNCHANGED <<queue, qlog, rawExists, apiVars, stopped, libVars, recVars, cur, docs, acc>>

\* building or saving the index raises
BuildVectorIndexFail(w) ==
    /\ wpc[w] = "vector"
    /\ builds_index(acc[w])
    /\ runlog' = [runlog EXCEPT ![w].vector = @ + 1, ![w].cause = "vector"]
    /\ wpc' = [wpc EXCEPT ![w] = "except"]
    /\ UNCHANGED <<store, queue, qlog, rawExists, apiVars, stopped, libVars, recVars, cur, js, docs, acc>>

\* (mutant of Finished) finished_at is not set
Finished_without_time(state, status) == [state EXCEPT !.status = status]

Finished(state, status) == [state EXCEPT !.status = status, !.finished_at = Now]

\* status DONE, finished_at
Finish(w) ==
    /\ wpc[w] = "finishing"
    /\ Persist(w, Finished(js[w], "DONE"), [runlog[w] EXCEPT !.result = "DONE"])
    /\ wpc' = [wpc EXCEPT ![w] = "loop"]
    /\ UNCHANGED <<queue, qlog, rawExists, apiVars, stopped, libVars, recVars, cur, docs, acc>>

\* (mutant of Failed) the stats are reset as at the start of a run
Failed_resets_stats(state, message) ==
    [Finished(state, "ERROR") EXCEPT !.errors = Append(@, JobError(message, NoPath)),
                                      !.stats = JobStats(state.stats.total_files)]

\* (mutant of Failed) finished_at is not set
Failed_no_finished_at(state, message) ==
    [state EXCEPT !.status = "ERROR", !.errors = Append(@, JobError(message, NoPath))]

\* (mutant of Failed) the phase is moved on to FINALIZING
Failed_in_finalizing(state, message) ==
    [Finished(state, "ERROR") EXCEPT !.errors = Append(@, JobError(message, NoPath)),
                                      !.stats = SetAttr(@, "phase", "FINALIZING")]

\* the except clause of run(): status ERROR, finished_at, the error appended
Failed(state, message) ==
    [Finished(state, "ERROR") EXCEPT !.errors = Append(@, JobError(message, NoPath))]

ErrorHandler(w) ==
    /\ wpc[w] = "except"
    /\ Persist(w, Failed(js[w], runlog[w].cause), [runlog[w] EXCEPT !.result = "ERROR"])
    /\ wpc' = [wpc EXCEPT ![w] = "loop"]
    /\ UNCHANGED <<queue, qlog, rawExists, apiVars, stopped, libVars, recVars, cur, docs, acc>>

Next ==
    \/ \E j \in WorkerJobs, n \in 1..MaxDocs : UploadMoved(j, n)
    \/ \E j \in Jobs : ApiSaveJob(j)
    \/ \E j \in Jobs : ApiEnqueue(j)
    \/ \E j \in Jobs : RemoveRaw(j)
    \/ \E w \in Workers : WorkerStart(w)
    \/ \E w \in Workers, j \in Jobs : RecoverState(w, j)
    \/ \E w \in Workers : RecoverDone(w)
    \/ \E w \in Workers : Dequeue(w)
    \/ \E w \in Workers : DequeueEmpty(w)
    \/ \E w \in Workers : RunStart(w)
    \/ \E w \in Workers : LoadOk(w)
    \/ \E w \in Workers : LoadFail(w)
    \/ \E w \in Workers, o \in DocOutcomes : ProcessDoc(w, o)
    \/ \E w \in Workers : StartEmbedding(w)
    \/ \E w \in Workers : EmbedBatchOk(w)
    \/ \E w \in Workers : EmbedBatchFail(w)
    \/ \E w \in Workers : StartGraphWrite(w)
    \/ \E w \in Workers : WriteGraphOk(w)
    \/ \E w \in Workers : WriteGraphFail(w)
    \/ \E w \in Workers : RecordGraphStats(w)
    \/ \E w \in Workers : StartVectorIndex(w)
    \/ \E w \in Workers : BuildVectorIndexOk(w)
    \/ \E w \in Workers : BuildVectorIndexFail(w)
    \/ \E w \in Workers : Finish(w)
    \/ \E w \in Workers : ErrorHandler(w)

Spec == Init /\ [][Next]_vars

\* ---- one worker that is asked to stop
\* Here the loop of run() is followed call by call: the loop condition and
\* the call of dequeue are one step, the return of blpop is another, so that
\* a stop request can arrive while the worker waits in blpop.
StopWorkers == {"w1"}

\* the loop condition is true and dequeue(timeout=5) is called
Poll(w) ==
    /\ wpc[w] = "loop"
    /\ keeps_looping(w)
    /\ wpc' = [wpc EXCEPT ![w] = "dequeue"]
    /\ UNCHANGED <<store, queue, qlog, rawExists, apiVars, stopped, libVars, recVars, runVars>>

\* blpop returns an item
PollReturns(w) ==
    /\ wpc[w] = "dequeue"
    /\ queue # <<>>
    /\ cur' = [cur EXCEPT ![w] = Head(queue)]
    /\ queue' = Tail(queue)
    /\ qlog' = dequeued(qlog)
    /\ wpc' = [wpc EXCEPT ![w] = "run"]
    /\ UNCHANGED <<store, rawExists, apiVars, stopped, libVars, recVars, js, docs, acc, runlog>>

\* blpop times out: sleep and continue
PollTimesOut(w) ==
    /\ wpc[w] = "dequeue"
    /\ queue = <<>>
    /\ wpc' = [wpc EXCEPT ![w] = "loop"]
    /\ UNCHANGED <<store, queue, qlog, rawExists, apiVars, stopped, libVars, recVars, runVars>>

\* a step of IndexingPipeline.run
RunStep(w) ==
    \/ RunStart(w)
    \/ LoadOk(w)
    \/ LoadFail(w)
    \/ \E o \in DocOutcomes : ProcessDoc(w, o)
    \/ StartEmbedding(w)
    \/ EmbedBatchOk(w)
    \/ EmbedBatchFail(w)
    \/ StartGraphWrite(w)
    \/ WriteGraphOk(w)
    \/ WriteGraphFail(w)
    \/ RecordGraphStats(w)
    \/ StartVectorIndex(w)
    \/ BuildVectorIndexOk(w)
    \/ BuildVectorIndexFail(w)
    \/ Finish(w)
    \/ ErrorHandler(w)

\* a step of the worker process once it is started
WorkerStep(w) ==
    \/ \E j \in Jobs : RecoverState(w, j)
    \/ RecoverDone(w)
    \/ Poll(w)
    \/ PollReturns(w)
    \/ PollTimesOut(w)
    \/ RunStep(w)
    \/ Exit(w)

NextStop ==
    \/ \E j \in WorkerJobs, n \in 1..MaxDocs : UploadMoved(j, n)
    \/ \E j \in Jobs : ApiSaveJob(j)
    \/ \E j \in Jobs : ApiEnqueue(j)
    \/ \E j \in Jobs : RemoveRaw(j)
    \/ \E w \in StopWorkers : WorkerStart(w)
    \/ \E w \in StopWorkers : Stop(w)
    \/ \E w \in StopWorkers : WorkerStep(w)

\* the worker process is scheduled as long as it can take a step
SpecStop == Init /\ [][NextStop]_vars /\ \A w \in StopWorkers : WF_vars(WorkerStep(w))

\* ---- the raw directory changes after the upload
\* a loadable file that was not part of the upload appears in the directory
RawFileAdded(j, i) ==
    /\ rawExists[j]
    /\ <<File(i)>> \notin rawFiles[j]
    /\ rawFiles' = [rawFiles EXCEPT ![j] = @ \cup {<<File(i)>>}]
    /\ UNCHANGED <<store, queue, qlog, rawExists, apiStage, sessVars, wpc, stopped, libVars,
                   recVars, runVars>>

LoneWorker == {"w1"}

NextMismatch ==
    \/ \E j \in WorkerJobs, n \in 1..MaxDocs : UploadMoved(j, n)
    \/ \E j \in Jobs : ApiSaveJob(j)
    \/ \E j \in Jobs : ApiEnqueue(j)
    \/ \E j \in Jobs : RemoveRaw(j)
    \/ \E j \in Jobs, i \in 1..MaxDocs : RawFileAdded(j, i)
    \/ \E w \in LoneWorker : WorkerStart(w)
    \/ \E w \in LoneWorker, j \in Jobs : RecoverState(w, j)
    \/ \E w \in LoneWorker : RecoverDone(w)
    \/ \E w \in LoneWorker : Dequeue(w)
    \/ \E w \in LoneWorker : DequeueEmpty(w)
    \/ \E w \in LoneWorker : RunStep(w)

SpecMismatch == Init /\ [][NextMismatch]_vars

\* ------------------------------------------------------------ _merge_nodes
MaxNodes == 3
NodeKeys == {"k1", "k2"}
PropertyNames == {"name", "path"}
PropertyValues == {None, "x", "y"}

\* a properties dict holds a value, possibly None, for some of the names
Properties == UNION {[D -> PropertyValues] : D \in SUBSET PropertyNames}

GraphNode(key, properties) == [key |-> key, properties |-> properties]

GraphNodes == {GraphNode(k, p) : k \in NodeKeys, p \in Properties}

\* (mutant of non_null) None values are kept
non_null_unfiltered(properties) == properties

\* {k: v for k, v in properties.items() if v is not None}
non_null(properties) ==
    [k \in {n \in DOMAIN properties : properties[n] # None} |-> properties[k]]

\* dict.update
update(d, e) ==
    [k \in DOMAIN d \cup DOMAIN e |-> IF k \in DOMAIN e THEN e[k] ELSE d[k]]

\* the body of the loop for one node
merge_node(by_key, node) ==
    IF node.key \in DOMAIN by_key
    THEN [by_key EXCEPT ![node.key] = update(@, non_null(node.properties))]
    ELSE [k \in DOMAIN by_key \cup {node.key} |->
             IF k = node.key THEN node.properties ELSE by_key[k]]

\* one iteration: the next node of the list is merged
MergeNode(node) ==
    /\ Len(nodes) < MaxNodes
    /\ nodes_by_key' = merge_node(nodes_by_key, node)
    /\ nodes' = Append(nodes, node)
    /\ UNCHANGED except_mergeVars

NextMerge == Len(nodes) < MaxNodes /\ \E node \in GraphNodes : MergeNode(node)

SpecMerge == Init /\ [][NextMerge]_vars

\* ------------------------------------------------------------ _merge_edges
MaxEdgeDocs == 2
EdgeListSizes == {1, 2}
Collections == {"c1", ""}
EdgeTriples == {<<"k1", "CALLS", "k2">>, <<"k2", "CALLS", "k1">>}

\* edge.properties is None
NoProperties == [none |-> TRUE]

\* the properties of an extracted edge: missing, or a dict that may already
\* hold a "collection"
EdgeProperties ==
    {NoProperties} \cup [{"line"} -> {"x", "y"}]
           \cup {[n \in {"line", "collection"} |-> IF n = "line" THEN "x" ELSE "other"]}

GraphEdge(triple, properties) ==
    [start |-> triple[1], type |-> triple[2], end |-> triple[3], properties |-> properties]

GraphEdges == {GraphEdge(t, p) : t \in EdgeTriples, p \in EdgeProperties}

EdgeLists == UNION {[1..n -> GraphEdges] : n \in EdgeListSizes}

EdgeKey(edge) == <<edge.start, edge.type, edge.end>>

\* whether _tag_edges_with_collection returns (it raises on an empty
\* collection and on an edge without properties)
tags(edges, coll) ==
    /\ coll # ""
    /\ \A i \in 1..Len(edges) : edges[i].properties # NoProperties

\* edge.properties["collection"] = collection
tagged(edge, coll) ==
    [edge EXCEPT !.properties =
        [n \in DOMAIN @ \cup {"collection"} |-> IF n = "collection" THEN coll ELSE @[n]]]

\* (mutant of merge_edge) a later edge of the triple replaces the kept one
merge_edge_last_wins(keyed, edge) ==
    [k \in DOMAIN keyed \cup {EdgeKey(edge)} |->
        IF k = EdgeKey(edge) THEN edge.properties ELSE keyed[k]]

\* the body of the loop of _merge_edges for one edge
merge_edge(keyed, edge) ==
    IF EdgeKey(edge) \notin DOMAIN keyed
    THEN [k \in DOMAIN keyed \cup {EdgeKey(edge)} |->
             IF k = EdgeKey(edge) THEN edge.properties ELSE keyed[k]]
    ELSE keyed

RECURSIVE merge_edges(_, _)
merge_edges(keyed, edges) ==
    IF edges = <<>> THEN keyed
    ELSE merge_edges(merge_edge(keyed, Head(edges)), Tail(edges))

tag_edges_with_collection(edges, coll) == [i \in 1..Len(edges) |-> tagged(edges[i], coll)]

\* run() is handed the job
ExtractionStarts(coll) ==
    /\ collection = None
    /\ collection' = coll
    /\ UNCHANGED <<edge_docs, edges_keyed, except_edgeVars>>

\* one document of the extraction loop: its edges are tagged and merged, or
\* the tagging raises and the document is recorded as an error
ExtractEdges(edges) ==
    /\ collection # None
    /\ Len(edge_docs) < MaxEdgeDocs
    /\ edge_docs' = Append(edge_docs, edges)
    /\ edges_keyed' = IF tags(edges, collection)
                      THEN merge_edges(edges_keyed,
                                       tag_edges_with_collection(edges, collection))
                      ELSE edges_keyed
    /\ UNCHANGED <<collection, except_edgeVars>>

NextEdges ==
    \/ \E coll \in Collections : ExtractionStarts(coll)
    \/ /\ collection # None
       /\ Len(edge_docs) < MaxEdgeDocs
       /\ \E edges \in EdgeLists : ExtractEdges(edges)

SpecEdges == Init /\ [][NextEdges]_vars

\* ------------------------------------------------------------ graph batches
\* an attempt returns, raises a Neo4jError, or raises another exception
AttemptOutcomes == {"ok", "Neo4jError", "Exception"}

WriterInit(setting) ==
    /\ writer.pc = "new"
    /\ writer' = [setting |-> setting, max_attempts |-> IF setting > 1 THEN setting ELSE 1,
                  batch |-> 1, attempt |-> 1, pc |-> "upsert"]
    /\ UNCHANGED <<batch_trace, except_writerVars>>

\* whether _execute_with_retry goes round its loop again
retries(w, outcome) == outcome = "Neo4jError" /\ ~(w.attempt >= w.max_attempts)

\* one call of operation() for the current batch
Attempt(outcome) ==
    /\ writer.pc = "upsert"
    /\ batch_trace' = [batch_trace EXCEPT ![writer.batch] =
                          [calls |-> @.calls + 1,
                           failed |-> @.failed + (IF outcome = "ok" THEN 0 ELSE 1),
                           logs |-> @.logs + (IF outcome = "Neo4jError" THEN 1 ELSE 0)]]
    /\ writer' =
          IF outcome = "ok"
          THEN IF writer.batch = MaxGraphBatches
               THEN [writer EXCEPT !.pc = "returned"]
               ELSE [writer EXCEPT !.batch = @ + 1, !.attempt = 1]
          ELSE IF retries(writer, outcome)
               THEN [writer EXCEPT !.attempt = @ + 1]
               ELSE [writer EXCEPT !.pc = "raised"]
    /\ UNCHANGED except_writerVars

NextGraphRetry ==
    \/ \E setting \in AttemptSettings : WriterInit(setting)
    \/ \E outcome \in AttemptOutcomes : Attempt(outcome)

SpecGraphRetry == Init /\ [][NextGraphRetry]_vars

\* ------------------------------------------------------------ _embed_batch
\* a request returns, raises an OpenAIError, or raises another exception
RequestOutcomes == {"ok", "OpenAIError", "Exception"}

EmbedderInit(attempts, backoff) ==
    /\ embedder.pc = "new"
    /\ embedder' = [max_attempts |-> attempts, backoff |-> backoff,
                    batch |-> 1, attempt |-> 0, pc |-> "embed"]
    /\ UNCHANGED <<embed_trace, except_embedderVars>>

\* (mutant of exhausted) one more attempt is allowed
exhausted_late(attempt, max_attempts) == attempt > max_attempts

\* if attempt >= self.max_attempts: raise
exhausted(attempt, max_attempts) == attempt >= max_attempts

\* one turn of the loop of _embed_batch: the request, and the sleep that
\* follows a failure that is retried
Request(outcome) ==
    /\ embedder.pc = "embed"
    /\ LET attempt == embedder.attempt + 1
           again == outcome = "OpenAIError" /\ ~exhausted(attempt, embedder.max_attempts)
       IN /\ embed_trace' = [embed_trace EXCEPT ![embedder.batch] =
                   [calls |-> @.calls + 1,
                    sleeps |-> IF again THEN Append(@.sleeps, embedder.backoff * attempt)
                                        ELSE @.sleeps]]
          /\ embedder' =
                IF outcome = "ok"
                THEN IF embedder.batch = MaxEmbedBatches
                     THEN [embedder EXCEPT !.attempt = attempt, !.pc = "returned"]
                     ELSE [embedder EXCEPT !.batch = @ + 1, !.attempt = 0]
                ELSE IF again
                     THEN [embedder EXCEPT !.attempt = attempt]
                     ELSE [embedder EXCEPT !.attempt = attempt, !.pc = "raised"]
    /\ UNCHANGED except_embedderVars

NextEmbedRetry ==
    \/ \E attempts \in RetrySettings, backoff \in BackoffSettings :
           EmbedderInit(attempts, backoff)
    \/ \E outcome \in RequestOutcomes : Request(outcome)

SpecEmbedRetry == Init /\ [][NextEmbedRetry]_vars

\* ------------------------------------------------------------ embed_texts_iter
MaxTexts == 4
Texts == {"a", "b"}
TextLists == UNION {[1..n -> Texts] : n \in 0..MaxTexts}

\* values of the setting max_embedding_batch
BatchSizes == 1..3

\* the vector the API returns for a text
Embedding(text) == <<"embedding", text>>

\* (mutant of batch_of) the slice stops one text early
batch_of_short(list, batch_start, batch_size) ==
    SubSeq(list, batch_start + 1, Min(batch_start + batch_size - 1, Len(list)))

\* texts[batch_start : batch_start + self.batch_size]
batch_of(list, batch_start, batch_size) ==
    SubSeq(list, batch_start + 1, Min(batch_start + batch_size, Len(list)))

\* response.data holds one embedding per input, in input order
embed_batch(batch) == [i \in 1..Len(batch) |-> Embedding(batch[i])]

\* _compute_embeddings(job_state, chunks): embedded_chunks was reset with
\* the phase; without chunks the client is not built
ComputeEmbeddings(list, size) ==
    /\ batcher.pc = "new"
    /\ texts' = list
    /\ batcher' = [batch_size |-> size, batch_start |-> 0,
                   pc |-> IF list = <<>> THEN "returned" ELSE "iter"]
    /\ UNCHANGED <<yielded, all_vectors, embedded, except_batcherVars>>

\* the next batch is embedded and yielded, and the orchestrator counts it
YieldBatch ==
    /\ batcher.pc = "iter"
    /\ batcher.batch_start < Len(texts)
    /\ LET vectors == embed_batch(batch_of(texts, batcher.batch_start, batcher.batch_size))
       IN /\ IF vectors # <<>>
             THEN /\ yielded' = Append(yielded, Len(vectors))
                  /\ all_vectors' = all_vectors \o vectors
                  /\ embedded' = embedded + Len(vectors)
             ELSE UNCHANGED <<yielded, all_vectors, embedded>>
    /\ batcher' = [batcher EXCEPT !.batch_start = @ + batcher.batch_size]
    /\ UNCHANGED <<texts, except_batcherVars>>

\* _embed_batch raises for the next batch
BatchRaises ==
    /\ batcher.pc = "iter"
    /\ batcher.batch_start < Len(texts)
    /\ batcher' = [batcher EXCEPT !.pc = "raised"]
    /\ UNCHANGED <<texts, yielded, all_vectors, embedded, except_batcherVars>>

\* the range is exhausted: the iterator ends and the rows are stacked
IterEnds ==
    /\ batcher.pc = "iter"
    /\ batcher.batch_start >= Len(texts)
    /\ batcher' = [batcher EXCEPT !.pc = "returned"]
    /\ UNCHANGED <<texts, yielded, all_vectors, embedded, except_batcherVars>>

NextEmbedIter ==
    \/ /\ batcher.pc = "new"
       /\ \E list \in TextLists, size \in BatchSizes : ComputeEmbeddings(list, size)
    \/ YieldBatch
    \/ BatchRaises
    \/ IterEnds

SpecEmbedIter == Init /\ [][NextEmbedIter]_vars

\* ------------------------------------------------------------ _chunk_text
\* A text is the sequence of its characters.
MaxTextLen == 5
NL == "\n"
Chars == {"a", " ", NL}
Whitespace == {" ", NL}
ChunkTexts == UNION {[1..n -> Chars] : n \in 0..MaxTextLen}
TargetChars == 1..4
OverlapChars == 0..2

RECURSIVE lstrip(_)
lstrip(s) == IF s # <<>> /\ Head(s) \in Whitespace THEN lstrip(Tail(s)) ELSE s

RECURSIVE rstrip(_)
rstrip(s) ==
    IF s # <<>> /\ s[Len(s)] \in Whitespace THEN rstrip(SubSeq(s, 1, Len(s) - 1)) ELSE s

\* str.strip()
strip(s) == rstrip(lstrip(s))

\* str.split("\n\n")
RECURSIVE split(_)
split(s) ==
    IF \E i \in 1..(Len(s) - 1) : s[i] = NL /\ s[i + 1] = NL
    THEN LET i == CHOOSE i \in 1..(Len(s) - 1) :
                     /\ s[i] = NL /\ s[i + 1] = NL
                     /\ \A o \in 1..(i - 1) : ~(s[o] = NL /\ s[o + 1] = NL)
         IN <<SubSeq(s, 1, i - 1)>> \o split(SubSeq(s, i + 2, Len(s)))
    ELSE <<s>>

\* (mutant of split_long) the paragraph is kept whole
split_long_whole(para, limit) == <<para>>

\* [para[i : i + limit] for i in range(0, len(para), limit)]
RECURSIVE split_long(_, _)
split_long(para, limit) ==
    IF para = <<>> THEN <<>>
    ELSE IF Len(para) <= limit THEN <<para>>
    ELSE <<SubSeq(para, 1, limit)>> \o split_long(SubSeq(para, limit + 1, Len(para)), limit)

\* [p.strip() for p in text.split("\n\n") if p.strip()]
RECURSIVE stripped_paragraphs(_)
stripped_paragraphs(parts) ==
    IF parts = <<>> THEN <<>>
    ELSE IF strip(Head(parts)) # <<>>
         THEN <<strip(Head(parts))>> \o stripped_paragraphs(Tail(parts))
         ELSE stripped_paragraphs(Tail(parts))

\* oversized paragraphs are broken down
RECURSIVE pieces_of(_, _)
pieces_of(paragraphs, target_chars) ==
    IF paragraphs = <<>> THEN <<>>
    ELSE (IF Len(Head(paragraphs)) <= target_chars
          THEN <<Head(paragraphs)>>
          ELSE split_long(Head(paragraphs), target_chars))
         \o pieces_of(Tail(paragraphs), target_chars)

commit(segs, segment) == IF segment # <<>> THEN Append(segs, strip(segment)) ELSE segs

\* the assembly loop and the commit after it
RECURSIVE assemble(_, _, _, _)
assemble(pieces, current, segs, target_chars) ==
    IF pieces = <<>> THEN commit(segs, current)
    ELSE IF Len(current) + Len(Head(pieces)) + 2 <= target_chars
         THEN assemble(Tail(pieces), strip(current \o <<NL, NL>> \o Head(pieces)), segs,
                       target_chars)
         ELSE assemble(Tail(pieces), Head(pieces), commit(segs, current), target_chars)

\* segment[-overlap_chars:]
tail(segment, overlap_chars) ==
    IF Len(segment) <= overlap_chars THEN segment
    ELSE SubSeq(segment, Len(segment) - overlap_chars + 1, Len(segment))

\* the overlap loop
RECURSIVE overlapped(_, _, _)
overlapped(segs, prev_tail, overlap_chars) ==
    IF segs = <<>> THEN <<>>
    ELSE <<IF prev_tail # <<>> THEN strip(prev_tail \o <<NL>> \o Head(segs)) ELSE Head(segs)>>
         \o overlapped(Tail(segs), tail(Head(segs), overlap_chars), overlap_chars)

\* lines 33-67: the text is stripped, split and assembled into text_segments
Assemble(text, target_chars, overlap_chars) ==
    /\ chunker.pc = "new"
    /\ LET stripped == strip(text)
           pieces == pieces_of(stripped_paragraphs(split(stripped)), target_chars)
           segs == assemble(IF pieces # <<>> THEN pieces
                                             ELSE split_long(stripped, target_chars),
                            <<>>, <<>>, target_chars)
       IN IF stripped = <<>>
          THEN /\ text_segments' = <<>>
               /\ chunker' = [text |-> text, target_chars |-> target_chars,
                              overlap_chars |-> overlap_chars, pc |-> "done"]
          ELSE /\ text_segments' = IF segs # <<>> THEN segs
                                             ELSE split_long(stripped, target_chars)
               /\ chunker' = [text |-> text, target_chars |-> target_chars,
                              overlap_chars |-> overlap_chars, pc |-> "assembled"]
    /\ UNCHANGED except_chunkerVars

\* lines 69-79: the overlap is applied and the text_segments are returned
ApplyOverlap ==
    /\ chunker.pc = "assembled"
    /\ text_segments' = IF chunker.overlap_chars > 0 /\ Len(text_segments) > 1
                   THEN overlapped(text_segments, <<>>, chunker.overlap_chars)
                   ELSE text_segments
    /\ chunker' = [chunker EXCEPT !.pc = "done"]
    /\ UNCHANGED except_chunkerVars

NextChunk ==
    \/ /\ chunker.pc = "new"
       /\ \E text \in ChunkTexts, t \in TargetChars, o \in OverlapChars :
             Assemble(text, t, o)
    \/ ApplyOverlap

SpecChunk == Init /\ [][NextChunk]_vars

\* ------------------------------------------------------------ SchemaValidator
\* The schema knows the node label "Module", whose property "name" is
\* required, and the relationship type "CALLS".
NodeLabels == {"Module", "Other"}
RelationshipTypes == {"CALLS", "OTHER"}
allowed_relationships == {"CALLS"}

\* nodes to validate: label and whether the required property has a value
ValidatedNodes == [label : NodeLabels, has_name : BOOLEAN]

\* edges to validate: start and end are a NodeKey or None
ValidatedEdges == [type : RelationshipTypes, start : {None, "k1"}, end : {None, "k1"}]

\* text units to validate: whether the path is blank
ValidatedUnits == [blank_path : BOOLEAN]

Extractions ==
    [nodes : {<<>>} \cup {<<n>> : n \in ValidatedNodes},
     edges : UNION {[1..k -> ValidatedEdges] : k \in 0..MaxExtractedEdges},
     text_units : {<<>>} \cup {<<u>> : u \in ValidatedUnits}]

Schemas == [additional_node_types : BOOLEAN, additional_relationship_types : BOOLEAN]

\* whether _validate_node raises
node_fails(schema, node) ==
    IF node.label # "Module" THEN ~schema.additional_node_types
    ELSE ~node.has_name

\* whether _validate_edge raises
edge_fails(schema, edge) ==
    IF edge.type \notin allowed_relationships /\ schema.additional_relationship_types
    THEN FALSE
    ELSE \/ edge.type \notin allowed_relationships
         \/ edge.start = None
         \/ edge.end = None

\* whether _validate_text_unit raises
text_unit_fails(unit) == unit.blank_path

\* validate(extraction): SchemaValidationError from the first element that fails
validate(schema, extraction) ==
    IF \E i \in 1..Len(extraction.nodes) : node_fails(schema, extraction.nodes[i])
    THEN "node"
    ELSE IF \E i \in 1..Len(extraction.edges) : edge_fails(schema, extraction.edges[i])
    THEN "edge"
    ELSE IF \E i \in 1..Len(extraction.text_units) : text_unit_fails(extraction.text_units[i])
    THEN "text_unit"
    ELSE "valid"

Validate(schema, extraction) ==
    /\ validation.pc = "new"
    /\ validation' = [pc |-> "done", schema |-> schema, extraction |-> extraction,
                      raised |-> validate(schema, extraction)]
    /\ UNCHANGED except_validatorVars

NextValidate ==
    /\ validation.pc = "new"
    /\ \E schema \in Schemas, extraction \in Extractions : Validate(schema, extraction)

SpecValidate == Init /\ [][NextValidate]_vars

\* ------------------------------------------------------------ FaissVectorStore
\* A dict is the sequence of its items in insertion order.
MaxIds == 3
ChunkIds == {"c1", "c2", "c3"}
IdLists == UNION {[1..n -> ChunkIds] : n \in 1..MaxIds}

keys(dict) == [i \in 1..Len(dict) |-> dict[i].chunk_id]

HasKey(dict, chunk_id) == \E i \in 1..Len(dict) : dict[i].chunk_id = chunk_id

\* dict[row["chunk_id"]] = row: a known key keeps its position
put(dict, row) ==
    IF HasKey(dict, row.chunk_id)
    THEN [i \in 1..Len(dict) |-> IF dict[i].chunk_id = row.chunk_id THEN row ELSE dict[i]]
    ELSE Append(dict, row)

RECURSIVE from_rows(_, _)
from_rows(dict, rows) ==
    IF rows = <<>> THEN dict ELSE from_rows(put(dict, Head(rows)), Tail(rows))

\* self.metadata.get(chunk_id, {}) with setdefault("chunk_id", chunk_id)
payload_of(dict, chunk_id) ==
    IF HasKey(dict, chunk_id)
    THEN dict[CHOOSE i \in 1..Len(dict) : dict[i].chunk_id = chunk_id]
    ELSE [chunk_id |-> chunk_id, text |-> None]

\* json.dumps(payload) + "\n", and json.loads of a line
dumps(payload) == <<"{", payload.chunk_id, payload.text, "}">>
loads(line) == [chunk_id |-> line[2], text |-> line[3]]

\* the metadata row the pipeline builds for a chunk
MetadataRow(chunk_id) == [chunk_id |-> chunk_id, text |-> <<"text of", chunk_id>>]

Build(id_list) ==
    /\ faiss_store.pc = "new"
    /\ faiss_store' = [faiss_store EXCEPT !.pc = "built", !.given = id_list, !.ids = id_list]
    /\ UNCHANGED <<chunks_jsonl, except_vectorVars>>

\* set_metadata with the rows of some of the chunks
SetMetadata(with_rows) ==
    /\ faiss_store.pc = "built"
    /\ LET rows == SelectSeq(faiss_store.ids, LAMBDA c : c \in with_rows)
       IN faiss_store' = [faiss_store EXCEPT
              !.pc = "described",
              !.metadata = from_rows(<<>>, [i \in 1..Len(rows) |-> MetadataRow(rows[i])])]
    /\ UNCHANGED <<chunks_jsonl, except_vectorVars>>

Save ==
    /\ faiss_store.pc = "described"
    /\ chunks_jsonl' = [i \in 1..Len(faiss_store.ids) |->
                           dumps(payload_of(faiss_store.metadata, faiss_store.ids[i]))]
    /\ faiss_store' = [faiss_store EXCEPT !.pc = "saved"]
    /\ UNCHANGED except_vectorVars

\* load() of a fresh store on the saved files
Load ==
    /\ faiss_store.pc = "saved"
    /\ LET dict == from_rows(<<>>, [i \in 1..Len(chunks_jsonl) |-> loads(chunks_jsonl[i])])
       IN faiss_store' = [faiss_store EXCEPT !.pc = "loaded", !.metadata = dict,
                                             !.ids = keys(dict)]
    /\ UNCHANGED <<chunks_jsonl, except_vectorVars>>

NextVectorStore ==
    \/ \E id_list \in IdLists : Build(id_list)
    \/ \E with_rows \in SUBSET ChunkIds : SetMetadata(with_rows)
    \/ Save
    \/ Load

SpecVectorStore == Init /\ [][NextVectorStore]_vars

\* ------------------------------------------------------------ Neo4jGraphWriter.upsert
\* The store holds nodes, identified by their position, and relationships
\* between positions; nothing in it keeps node keys unique.
RowProperties == {<<>>} \cup [{"name"} -> {None, "x", "y"}]
UpsertNodes == [key : NodeKeys, properties : RowProperties]
UpsertEdges ==
    [start : NodeKeys, type : {"CALLS"}, end : NodeKeys,
     properties : {<<>>} \cup [{"line"} -> {"x", "y"}]]
UpsertNodeLists == UNION {[1..n -> UpsertNodes] : n \in 0..MaxUpsertNodes}
UpsertEdgeLists == UNION {[1..n -> UpsertEdges] : n \in 0..MaxUpsertEdges}

StoredNode(key, name) == [key |-> key, properties |-> [n \in {"name"} |-> name]]

\* what the store may hold before the first run
InitialGraphs ==
    {EmptyGraph,
     [nodes |-> <<StoredNode("k1", "old")>>, edges |-> <<>>],
     [nodes |-> <<StoredNode("k1", "old"), StoredNode("k1", "older")>>, edges |-> <<>>]}

\* the row of _build_node_rows and of the edge rows: null properties are dropped
row_of(item) == [item EXCEPT !.properties = non_null(@)]

\* (mutant of merge_node_row) CREATE in place of MERGE
create_node_row(stored, row) ==
    Append(stored, [key |-> row.key, properties |-> row.properties])

\* MERGE (n:label {key}) SET n += row.props
merge_node_row(stored, row) ==
    IF \E i \in 1..Len(stored) : stored[i].key = row.key
    THEN [i \in 1..Len(stored) |->
             IF stored[i].key = row.key
             THEN [stored[i] EXCEPT !.properties = update(@, row.properties)]
             ELSE stored[i]]
    ELSE Append(stored, [key |-> row.key, properties |-> row.properties])

RECURSIVE merge_node_rows(_, _)
merge_node_rows(stored, rows) ==
    IF rows = <<>> THEN stored
    ELSE merge_node_rows(merge_node_row(stored, row_of(Head(rows))), Tail(rows))

\* the relationships MATCH (s) MATCH (e) MERGE (s)-[r:type]->(e) binds
Bound(stored, row) ==
    {[s |-> i, type |-> row.type, e |-> j] :
        i \in {i \in 1..Len(stored) : stored[i].key = row.start},
        j \in {j \in 1..Len(stored) : stored[j].key = row.end}}

HasEdge(rels, id) == \E k \in 1..Len(rels) : rels[k].id = id

\* SET r += edge.props on one bound relationship, created if it is not there
RECURSIVE merge_relationships(_, _, _)
merge_relationships(rels, ids, props) ==
    IF ids = {} THEN rels
    ELSE LET id == CHOOSE id \in ids : TRUE
             merged == IF HasEdge(rels, id)
                       THEN [k \in 1..Len(rels) |->
                                IF rels[k].id = id
                                THEN [rels[k] EXCEPT !.properties = update(@, props)]
                                ELSE rels[k]]
                       ELSE Append(rels, [id |-> id, properties |-> props])
         IN merge_relationships(merged, ids \ {id}, props)

RECURSIVE merge_edge_rows(_, _, _)
merge_edge_rows(rels, stored, rows) ==
    IF rows = <<>> THEN rels
    ELSE merge_edge_rows(
             merge_relationships(rels, Bound(stored, Head(rows)),
                                 row_of(Head(rows)).properties),
             stored, Tail(rows))

\* upsert(nodes, edges) is called on a store
UpsertStarts(initial, node_list, edge_list) ==
    /\ upsert_run.pc = "new"
    /\ graph' = initial
    /\ upsert_run' = [pc |-> "nodes", nodes |-> node_list, edges |-> edge_list, runs |-> 0,
                      before |-> initial, first |-> EmptyGraph]
    /\ UNCHANGED except_graphVars

\* the node batches
NodeBatches ==
    /\ upsert_run.pc = "nodes"
    /\ graph' = [graph EXCEPT !.nodes = merge_node_rows(@, upsert_run.nodes)]
    /\ upsert_run' = [upsert_run EXCEPT !.pc = "edges"]
    /\ UNCHANGED except_graphVars

\* the edge batches, and the return of upsert
EdgeBatches ==
    /\ upsert_run.pc = "edges"
    /\ graph' = [graph EXCEPT !.edges = merge_edge_rows(@, graph.nodes, upsert_run.edges)]
    /\ upsert_run' = [upsert_run EXCEPT
          !.pc = "returned",
          !.runs = @ + 1,
          !.first = IF upsert_run.runs = 0 THEN graph' ELSE @]
    /\ UNCHANGED except_graphVars

\* the job is run again with the same nodes and edges
UpsertAgain ==
    /\ upsert_run.pc = "returned"
    /\ upsert_run.runs < MaxUpsertRuns
    /\ upsert_run' = [upsert_run EXCEPT !.pc = "nodes", !.before = graph]
    /\ UNCHANGED <<graph, except_graphVars>>

NextUpsert ==
    \/ /\ upsert_run.pc = "new"
       /\ \E initial \in InitialGraphs, node_list \in UpsertNodeLists,
             edge_list \in UpsertEdgeLists : UpsertStarts(initial, node_list, edge_list)
    \/ NodeBatches
    \/ EdgeBatches
    \/ UpsertAgain

SpecUpsert == Init /\ [][NextUpsert]_vars

\* ---- the groups and batches of upsert
\* Each write transaction is one call of session.execute_write, which returns
\* after the commit; the log of the database lists them in commit order.
MaxCallNodes == 2
MaxCallEdges == 2
Labels == {"A", "B"}
FieldOrder == <<"id", "path">>
KeyProps == {[f \in {"id"} |-> "1"], [f \in {"path"} |-> "p"]}
BatchRowSizes == {1, 2}

\* sorted(key_props.keys())
sorted_keys(key_props) == SelectSeq(FieldOrder, LAMBDA f : f \in DOMAIN key_props)

\* NodeKey.from_dict: the items of the key, sorted
from_dict(label, key_props) ==
    [label |-> label,
     key |-> [i \in 1..Len(sorted_keys(key_props)) |->
                 <<sorted_keys(key_props)[i], key_props[sorted_keys(key_props)[i]]>>]]

\* NodeKey.to_dict
to_dict(node_key) ==
    [f \in {node_key.key[i][1] : i \in DOMAIN node_key.key} |->
        (CHOOSE pair \in {node_key.key[i] : i \in DOMAIN node_key.key} : pair[1] = f)[2]]

\* [key for key, _ in node_key.key]
key_names(node_key) == [i \in DOMAIN node_key.key |-> node_key.key[i][1]]

CallNodes == [label : Labels, key : KeyProps]
CallNodeKeys == {from_dict(l, k) : l \in Labels, k \in KeyProps}
CallEdges == [start : CallNodeKeys, type : {"CALLS"},
              end : {from_dict("B", k) : k \in KeyProps}]
CallNodeLists == UNION {[1..n -> CallNodes] : n \in 0..MaxCallNodes}
CallEdgeLists == UNION {[1..n -> CallEdges] : n \in 0..MaxCallEdges}

node_group(node) == node.label
edge_group(edge) == <<edge.start.label, edge.type, edge.end.label>>

\* the keys of a defaultdict(list) filled in one pass, in insertion order
RECURSIVE group_ids(_)
group_ids(ids) ==
    IF ids = <<>> THEN <<>>
    ELSE LET rest == group_ids(SubSeq(ids, 1, Len(ids) - 1))
         IN IF \E i \in 1..Len(rest) : rest[i] = ids[Len(ids)] THEN rest
            ELSE Append(rest, ids[Len(ids)])

grouped(kind, items, group_of(_)) ==
    LET ids == group_ids([i \in 1..Len(items) |-> group_of(items[i])])
    IN [g \in 1..Len(ids) |->
           [kind |-> kind, id |-> ids[g],
            bucket |-> SelectSeq(items, LAMBDA x : group_of(x) = ids[g])]]

\* (mutant of upsert_groups) the edge groups are run before the node groups
upsert_groups_edges_first(node_list, edge_list) ==
    grouped("edges", edge_list, edge_group) \o grouped("nodes", node_list, node_group)

\* the two loops of upsert: every label group, then every edge group
upsert_groups(node_list, edge_list) ==
    grouped("nodes", node_list, node_group) \o grouped("edges", edge_list, edge_group)

\* (mutant of derive_raises) only the number of key fields is compared
derive_raises_on_count(group) ==
    IF group.kind = "nodes"
    THEN \E i \in 2..Len(group.bucket) :
            Len(sorted_keys(group.bucket[i].key)) # Len(sorted_keys(group.bucket[1].key))
    ELSE \E i \in 2..Len(group.bucket) :
            \/ Len(key_names(group.bucket[i].start)) # Len(key_names(group.bucket[1].start))
            \/ Len(key_names(group.bucket[i].end)) # Len(key_names(group.bucket[1].end))

\* whether _derive_node_key_fields or _derive_edge_fields raises ValueError
derive_raises(group) ==
    IF group.kind = "nodes"
    THEN \E i \in 2..Len(group.bucket) :
            sorted_keys(group.bucket[i].key) # sorted_keys(group.bucket[1].key)
    ELSE \E i \in 2..Len(group.bucket) :
            \/ key_names(group.bucket[i].start) # key_names(group.bucket[1].start)
            \/ key_names(group.bucket[i].end) # key_names(group.bucket[1].end)

_chunked(items, size) ==
    [b \in 1..((Len(items) + size - 1) \div size) |->
        SubSeq(items, (b - 1) * size + 1, Min(b * size, Len(items)))]

\* a stored node has the label and the property values of the pattern
matches(stored, label, pattern) ==
    /\ stored.label = label
    /\ \A f \in DOMAIN pattern : f \in DOMAIN stored.key /\ stored.key[f] = pattern[f]

\* UNWIND $nodes AS row MERGE (n:label {key fields})
RECURSIVE run_nodes(_, _, _)
run_nodes(stored, label, rows) ==
    IF rows = <<>> THEN stored
    ELSE LET row == Head(rows)
             merged == IF \E n \in stored : matches(n, label, row.key) THEN stored
                       ELSE stored \cup {[label |-> label, key |-> row.key]}
         IN run_nodes(merged, label, Tail(rows))

\* UNWIND $edges AS edge MATCH (s) MATCH (e): whether each row binds both
run_edges(stored, id, rows) ==
    [i \in 1..Len(rows) |->
        /\ \E n \in stored : matches(n, id[1], to_dict(rows[i].start))
        /\ \E n \in stored : matches(n, id[3], to_dict(rows[i].end))]

UpsertCalled(node_list, edge_list, size) ==
    /\ upsert_call.pc = "new"
    /\ upsert_call' = [pc |-> "groups", nodes |-> node_list, edges |-> edge_list,
                       size |-> size, groups |-> upsert_groups(node_list, edge_list),
                       batches |-> <<>>, kind |-> None, id |-> None]
    /\ UNCHANGED <<neo4j_db, except_txVars>>

\* the loop reaches a group: its fields are derived, its batches are cut
EnterGroup ==
    /\ upsert_call.pc = "groups"
    /\ upsert_call.groups # <<>>
    /\ LET group == Head(upsert_call.groups)
       IN upsert_call' =
            IF derive_raises(group)
            THEN [upsert_call EXCEPT !.pc = "raised", !.kind = group.kind, !.id = group.id]
            ELSE [upsert_call EXCEPT
                     !.pc = "batches", !.kind = group.kind, !.id = group.id,
                     !.groups = Tail(@),
                     !.batches = _chunked(group.bucket, upsert_call.size)]
    /\ UNCHANGED <<neo4j_db, except_txVars>>

\* _execute_with_retry returns: the transaction of the batch has committed
BatchCommits ==
    /\ upsert_call.pc = "batches"
    /\ LET rows == Head(upsert_call.batches)
       IN neo4j_db' =
            IF upsert_call.kind = "nodes"
            THEN [nodes |-> run_nodes(neo4j_db.nodes, upsert_call.id, rows),
                  log |-> Append(neo4j_db.log,
                                 [kind |-> "nodes", id |-> upsert_call.id, rows |-> rows,
                                  bound |-> <<>>])]
            ELSE [neo4j_db EXCEPT
                     !.log = Append(@, [kind |-> "edges", id |-> upsert_call.id,
                                        rows |-> rows,
                                        bound |-> run_edges(neo4j_db.nodes,
                                                            upsert_call.id, rows)])]
    /\ upsert_call' = [upsert_call EXCEPT
          !.batches = Tail(@),
          !.pc = IF Tail(upsert_call.batches) = <<>> THEN "groups" ELSE "batches"]
    /\ UNCHANGED except_txVars

\* _execute_with_retry raises: the transaction of the batch was rolled back
BatchFails ==
    /\ upsert_call.pc = "batches"
    /\ upsert_call' = [upsert_call EXCEPT !.pc = "raised"]
    /\ UNCHANGED <<neo4j_db, except_txVars>>

\* both loops are done
UpsertReturns ==
    /\ upsert_call.pc = "groups"
    /\ upsert_call.groups = <<>>
    /\ upsert_call' = [upsert_call EXCEPT !.pc = "returned"]
    /\ UNCHANGED <<neo4j_db, except_txVars>>

NextUpsertCall ==
    \/ /\ upsert_call.pc = "new"
       /\ \E node_list \in CallNodeLists, edge_list \in CallEdgeLists,
             size \in BatchRowSizes : UpsertCalled(node_list, edge_list, size)
    \/ EnterGroup
    \/ BatchCommits
    \/ BatchFails
    \/ UpsertReturns

SpecUpsertCall == Init /\ [][NextUpsertCall]_vars

\* ---- _safe_relative_path, character by character
\* A file name is a string over a letter, the dot, the slash and the
\* backslash; paths are those of a POSIX host.
MaxNameLen == 4
NameChars == {"a", ".", "/", "\\"}
Names == UNION {[1..n -> NameChars] : n \in 0..MaxNameLen}
SessionTmp == <<<<"sessions">>, <<"upload_id">>, <<"tmp">>>>
JobRaw == <<<<"workspace">>, <<"collection">>, <<"job_id">>, <<"raw">>>>

\* name.replace("\\", "/")
replace_backslash(name) == [i \in DOMAIN name |-> IF name[i] = "\\" THEN "/" ELSE name[i]]

RECURSIVE lstrip_slash(_)
lstrip_slash(s) ==
    IF s # <<>> /\ Head(s) = "/" THEN lstrip_slash(Tail(s)) ELSE s

\* s.split("/")
RECURSIVE split_slash(_)
split_slash(s) ==
    IF \A i \in DOMAIN s : s[i] # "/" THEN <<s>>
    ELSE LET cut == CHOOSE i \in DOMAIN s : s[i] = "/" /\ \A k \in 1..(i - 1) : s[k] # "/"
         IN <<SubSeq(s, 1, cut - 1)>> \o split_slash(SubSeq(s, cut + 1, Len(s)))

\* PurePosixPath(s).parts: the root, if s has one, and the components, the
\* empty ones and "." dropped
path_parts(s) ==
    (IF s # <<>> /\ Head(s) = "/" THEN <<<<"/">>>> ELSE <<>>)
        \o SelectSeq(split_slash(s), LAMBDA p : p # <<>> /\ p # <<".">>)

\* Path(*parts).as_posix()
RECURSIVE as_posix(_)
as_posix(parts) ==
    IF parts = <<>> THEN <<".">>
    ELSE IF Len(parts) = 1 THEN Head(parts)
         ELSE Head(parts) \o <<"/">> \o as_posix(Tail(parts))

\* (mutant of _safe_relative_path) ".." components are let through
_safe_relative_path_unchecked(name) ==
    LET parts == SelectSeq(path_parts(lstrip_slash(replace_backslash(name))),
                           LAMBDA p : p # <<>> /\ p # <<".">>)
    IN IF parts = <<>>
       THEN [ok |-> FALSE, rel_path |-> <<>>]
       ELSE [ok |-> TRUE, rel_path |-> as_posix(parts)]

_safe_relative_path(name) ==
    LET parts == SelectSeq(path_parts(lstrip_slash(replace_backslash(name))),
                           LAMBDA p : p # <<>> /\ p # <<".">>)
    IN IF \E i \in 1..Len(parts) : parts[i] = <<".", ".">>
       THEN [ok |-> FALSE, rel_path |-> <<>>]
       ELSE IF parts = <<>>
            THEN [ok |-> FALSE, rel_path |-> <<>>]
            ELSE [ok |-> TRUE, rel_path |-> as_posix(parts)]

\* base / rel: an absolute rel replaces the base
joined(base, rel) ==
    IF rel # <<>> /\ Head(rel) = "/" THEN path_parts(rel) ELSE base \o path_parts(rel)

\* where the file system resolves a path: ".." steps to the parent
RECURSIVE resolved(_, _)
resolved(done, parts) ==
    IF parts = <<>> THEN done
    ELSE IF Head(parts) = <<".", ".">>
         THEN resolved(SubSeq(done, 1, Len(done) - 1), Tail(parts))
         ELSE resolved(Append(done, Head(parts)), Tail(parts))

\* upload_part takes a file name
NameReceived(name) ==
    /\ path_call.pc = "new"
    /\ LET rel == _safe_relative_path(name)
       IN path_call' = [path_call EXCEPT
             !.name = name, !.ok = rel.ok, !.rel_path = rel.rel_path,
             !.pc = IF rel.ok THEN "planned" ELSE "rejected"]
    /\ UNCHANGED except_pathVars

\* target.write_bytes(content) with target = tmp_dir / rel_path
StoredInTmp ==
    /\ path_call.pc = "planned"
    /\ path_call' = [path_call EXCEPT
          !.pc = "stored",
          !.target = resolved(<<>>, joined(SessionTmp, path_call.rel_path))]
    /\ UNCHANGED except_pathVars

\* shutil.move(source, target) with target = raw_dir / relative
MovedToRaw ==
    /\ path_call.pc = "stored"
    /\ path_call' = [path_call EXCEPT
          !.pc = "moved",
          !.target = resolved(<<>>, joined(JobRaw, path_call.rel_path))]
    /\ UNCHANGED except_pathVars

NextSafePath ==
    \/ /\ path_call.pc = "new"
       /\ \E name \in Names : NameReceived(name)
    \/ StoredInTmp
    \/ MovedToRaw

SpecSafePath == Init /\ [][NextSafePath]_vars

\* ---- the job store is unreachable
\* job_store.get or the first job_store.save raises before run() enters its try
RunStartRaises(w) ==
    /\ wpc[w] = "run"
    /\ runlog' = [runlog EXCEPT ![w] = [NoRun EXCEPT !.result = "raised"]]
    /\ wpc' = [wpc EXCEPT ![w] = "loop"]
    /\ UNCHANGED <<store, queue, qlog, rawExists, apiVars, stopped, libVars, recVars, cur, js, docs, acc>>

\* job_store.save raises inside the except clause of run()
ErrorHandlerRaises(w) ==
    /\ wpc[w] = "except"
    /\ js' = [js EXCEPT ![w] = Failed(@, runlog[w].cause)]
    /\ runlog' = [runlog EXCEPT ![w].result = "raised"]
    /\ wpc' = [wpc EXCEPT ![w] = "loop"]
    /\ UNCHANGED <<store, queue, qlog, rawExists, apiVars, stopped, libVars, recVars, cur, docs, acc>>

NextStoreFail ==
    \/ Next
    \/ \E w \in Workers : RunStartRaises(w)
    \/ \E w \in Workers : ErrorHandlerRaises(w)

SpecStoreFail == Init /\ [][NextStoreFail]_vars

\* ------------------------------------------------------- upload sessions
\* One session is followed.  Its handlers are coroutines of one event loop:
\* a handler runs undisturbed from one await to the next, so each action
\* below is the code between two awaits.
workerVars == <<wpc, stopped, libVars, recVars, runVars>>
jobVars == <<store, queue, qlog, rawExists, rawFiles, apiStage>>

Range(seq) == {seq[i] : i \in 1..Len(seq)}

Empty == Component("", 0, "")
DotDot == Component("..", 0, "")

SelectParts(name) == SelectSeq(name, LAMBDA c : c.kind \notin {"", "."})

\* _safe_relative_path: empty and "." components dropped (leading slashes
\* with them), ".." and an empty result refused
safe_relative_path(name) ==
    LET parts == SelectParts(name) IN
    IF \E i \in 1..Len(parts) : parts[i].kind = ".."
    THEN [ok |-> FALSE, path |-> <<>>]
    ELSE IF parts = <<>>
         THEN [ok |-> FALSE, path |-> <<>>]
         ELSE [ok |-> TRUE, path |-> parts]

\* Path(rel_path).suffix.lower()
suffix(path) == path[Len(path)].ext

\* the file names a client sends
RawNames ==
    {<<File(i)>> : i \in 1..MaxDocs}
        \cup {<<Empty, File(1)>>, <<DotDot, File(1)>>, <<Component("name", 1, ".exe")>>}

\* the batches a client sends: empty, within the limit, and over it
Batches ==
    UNION {[1..n -> RawNames] : n \in 0..upload_session_batch_size}
        \cup {[i \in 1..(upload_session_batch_size + 1) |-> <<File(1)>>]}

\* the handler raises HTTPException(status_code) before it stores anything
Refused(status_code) == [ok |-> FALSE, planned |-> <<>>, code |-> status_code]

\* the response sent for a request; seq tells two equal responses apart
Response(handler, request, status_code) ==
    [handler |-> handler, request |-> request, code |-> status_code,
     seq |-> 1 - resp.seq]

RECURSIVE plan_entries(_, _, _, _)
\* the validation loop of upload_part over the files of the batch
plan_entries(files, existing_paths, disk, planned) ==
    IF files = <<>>
    THEN [ok |-> TRUE, planned |-> planned, code |-> 200]
    ELSE LET rel == safe_relative_path(Head(files)) IN
         IF \/ Head(files) = <<>>
            \/ ~rel.ok
            \/ rel.path \in existing_paths \cup Range(planned)
            \/ suffix(rel.path) \notin ALLOWED_EXTENSIONS
         THEN Refused(400)
         ELSE IF rel.path \in disk
              THEN Refused(409)
              ELSE plan_entries(Tail(files), existing_paths, disk,
                                Append(planned, rel.path))

SessionMeta(status, files, segments, total_files) ==
    [status |-> status, files |-> files, segments |-> segments,
     total_files |-> total_files]

\* _resolve_session_dir and _load_session_meta succeed
SessionFound == session = "live" /\ meta # Absent

\* ---- upload_init
UploadInit ==
    /\ session = "none"
    /\ session' = "live"
    /\ meta' = SessionMeta("open", <<>>, <<>>, 0)
    /\ tmp' = {}
    /\ resp' = Response("upload_init", "init", 200)
    /\ UNCHANGED <<part, jobVars, workerVars>>

\* creating tmp/ or writing meta.json fails: the session directory is removed
UploadInitFails ==
    /\ session = "none"
    /\ resp' = Response("upload_init", "init", 500)
    /\ UNCHANGED <<session, meta, tmp, part, jobVars, workerVars>>

\* ---- upload_part
\* whether the request gets past its checks, and what it plans to store
PartPlan(files) ==
    IF ~SessionFound
    THEN Refused(404)
    ELSE IF meta.status # "open"
         THEN Refused(409)
         ELSE IF files = <<>> \/ Len(files) > upload_session_batch_size
              THEN Refused(400)
              ELSE plan_entries(files, Range(meta.files), tmp, <<>>)

\* the request is refused before anything is stored
PartRejected(r, files) ==
    /\ part[r].pc = "idle"
    /\ ~PartPlan(files).ok
    /\ resp' = Response("upload_part", r, PartPlan(files).code)
    /\ UNCHANGED <<session, meta, tmp, part, jobVars, workerVars>>

\* meta loaded, the batch validated; the handler awaits the first read
PartBegin(r, files) ==
    /\ part[r].pc = "idle"
    /\ PartPlan(files).ok
    /\ part' = [part EXCEPT ![r] = [pc |-> "store", files |-> files, meta |-> meta,
                                    planned |-> PartPlan(files).planned,
                                    persisted |-> 0]]
    /\ UNCHANGED <<session, meta, tmp, resp, jobVars, workerVars>>

\* target.write_bytes(content) of the next planned entry
PartStoreFile(r) ==
    /\ part[r].pc = "store"
    /\ part[r].persisted < Len(part[r].planned)
    /\ session = "live"
    /\ tmp' = tmp \cup {part[r].planned[part[r].persisted + 1]}
    /\ part' = [part EXCEPT ![r].persisted = @ + 1]
    /\ UNCHANGED <<session, meta, resp, jobVars, workerVars>>

\* the files the except clause unlinks: those appended to persisted
Unlinked(p) == {p.planned[i] : i \in 1..p.persisted}

\* reading or writing the next entry raises and the files persisted so far
\* are unlinked; write_bytes may have created its target before it raised
PartStoreFails(r, created) ==
    /\ part[r].pc = "store"
    /\ part[r].persisted < Len(part[r].planned)
    /\ created => session = "live"
    /\ tmp' = (tmp \ Unlinked(part[r]))
                 \cup (IF created THEN {part[r].planned[part[r].persisted + 1]} ELSE {})
    /\ part' = [part EXCEPT ![r] = NoPart]
    /\ resp' = Response("upload_part", r, 500)
    /\ UNCHANGED <<session, meta, jobVars, workerVars>>

\* (mutant of Extended) total_files is left as it was loaded
Extended_stale_total(m, new_relative_paths) ==
    SessionMeta(m.status, m.files \o new_relative_paths,
                Append(m.segments, Len(new_relative_paths)),
                m.total_files)

\* files, segments and total_files of the loaded meta after the batch
Extended(m, new_relative_paths) ==
    SessionMeta(m.status, m.files \o new_relative_paths,
                Append(m.segments, Len(new_relative_paths)),
                Len(m.files \o new_relative_paths))

\* _write_session_meta of the loaded and extended meta
PartCommit(r) ==
    /\ part[r].pc = "store"
    /\ part[r].persisted = Len(part[r].planned)
    /\ session = "live"
    /\ meta' = Extended(part[r].meta, part[r].planned)
    /\ part' = [part EXCEPT ![r] = NoPart]
    /\ resp' = Response("upload_part", r, 200)
    /\ UNCHANGED <<session, tmp, jobVars, workerVars>>

\* _write_session_meta raises: the files of the batch are unlinked
PartCommitFails(r) ==
    /\ part[r].pc = "store"
    /\ part[r].persisted = Len(part[r].planned)
    /\ tmp' = tmp \ Range(part[r].planned)
    /\ part' = [part EXCEPT ![r] = NoPart]
    /\ resp' = Response("upload_part", r, 500)
    /\ UNCHANGED <<session, meta, jobVars, workerVars>>

\* ---- upload_complete (no await: the handler runs in one piece)
CompleteAccepts ==
    /\ SessionFound
    /\ meta.status = "open"
    /\ meta.files # <<>>

\* the request is refused: session not found, not open, or without files
CompleteRejected ==
    /\ ~CompleteAccepts
    /\ resp' = Response("upload_complete", "complete",
                        IF ~SessionFound THEN 404
                        ELSE IF meta.status # "open" THEN 409 ELSE 400)
    /\ UNCHANGED <<session, meta, tmp, part, jobVars, workerVars>>

\* writing meta.json with status finalizing fails
CompleteFinalizingFails ==
    /\ CompleteAccepts
    /\ resp' = Response("upload_complete", "complete", 500)
    /\ UNCHANGED <<session, meta, tmp, part, jobVars, workerVars>>

\* whether the move loop gets past the first k stored paths
Movable(stored_paths, k) ==
    \A i \in 1..k :
        /\ stored_paths[i] \in tmp
        /\ \A h \in 1..(i - 1) : stored_paths[h] # stored_paths[i]

Moved(stored_paths, k) == {stored_paths[i] : i \in 1..k}

\* the move loop stops at stored path k: its source is missing, its target
\* exists, or shutil.move raises
CompleteMoveFails(j, k) ==
    /\ CompleteAccepts
    /\ apiStage[j] = "none"
    /\ k \in 1..Len(meta.files)
    /\ Movable(meta.files, k - 1)
    /\ meta' = [meta EXCEPT !.status = "finalizing"]
    /\ rawExists' = [rawExists EXCEPT ![j] = TRUE]
    /\ rawFiles' = [rawFiles EXCEPT ![j] = Moved(meta.files, k - 1)]
    /\ tmp' = tmp \ Moved(meta.files, k - 1)
    /\ apiStage' = [apiStage EXCEPT ![j] = "failed"]
    /\ resp' = Response("upload_complete", "complete",
                        IF Movable(meta.files, k) THEN 500 ELSE 409)
    /\ UNCHANGED <<session, part, store, queue, qlog, workerVars>>

\* every file moved; writing meta.json with status closed fails
CompleteClosedFails(j) ==
    /\ CompleteAccepts
    /\ apiStage[j] = "none"
    /\ Movable(meta.files, Len(meta.files))
    /\ meta' = [meta EXCEPT !.status = "finalizing"]
    /\ rawExists' = [rawExists EXCEPT ![j] = TRUE]
    /\ rawFiles' = [rawFiles EXCEPT ![j] = Range(meta.files)]
    /\ tmp' = tmp \ Range(meta.files)
    /\ apiStage' = [apiStage EXCEPT ![j] = "failed"]
    /\ resp' = Response("upload_complete", "complete", 500)
    /\ UNCHANGED <<session, part, store, queue, qlog, workerVars>>

\* (mutant of SessionJobState) total_files is not seeded
SessionJobState_no_total(m, moved_count) == JobState("PENDING", JobStats(0))

\* the JobState upload_complete saves
SessionJobState(m, moved_count) ==
    LET s1 == SetAttr(JobStats(0), "total_files", moved_count)
        s2 == SetAttr(s1, "session_segments", m.segments)
        s3 == SetAttr(s2, "session_batches", Len(m.segments))
        s4 == SetAttr(s3, "session_total_files", moved_count)
    IN JobState("PENDING", s4)

\* every file moved, meta closed, the job saved and enqueued; rmtree of the
\* session directory succeeds or not
CompleteOk(j, removed) ==
    /\ CompleteAccepts
    /\ apiStage[j] = "none"
    /\ Movable(meta.files, Len(meta.files))
    /\ rawExists' = [rawExists EXCEPT ![j] = TRUE]
    /\ rawFiles' = [rawFiles EXCEPT ![j] = Range(meta.files)]
    /\ store' = save(store, j, SessionJobState(meta, Len(meta.files)))
    /\ queue' = enqueue(queue, j)
    /\ qlog' = enqueued(qlog)
    /\ apiStage' = [apiStage EXCEPT ![j] = "enqueued"]
    /\ IF removed
       THEN /\ session' = "removed"
            /\ meta' = Absent
            /\ tmp' = {}
       ELSE /\ session' = session
            /\ meta' = [meta EXCEPT !.status = "closed",
                                    !.total_files = Len(meta.files)]
            /\ tmp' = tmp \ Range(meta.files)
    /\ resp' = Response("upload_complete", "complete", 200)
    /\ UNCHANGED <<part, workerVars>>

NextUpload ==
    \/ UploadInit
    \/ UploadInitFails
    \/ \E r \in PartRequests, files \in Batches : PartRejected(r, files)
    \/ \E r \in PartRequests, files \in Batches : PartBegin(r, files)
    \/ \E r \in PartRequests : PartStoreFile(r)
    \/ \E r \in PartRequests, created \in BOOLEAN : PartStoreFails(r, created)
    \/ \E r \in PartRequests : PartCommit(r)
    \/ \E r \in PartRequests : PartCommitFails(r)
    \/ CompleteRejected
    \/ CompleteFinalizingFails
    \/ \E j \in Jobs, k \in 1..MaxDocs : CompleteMoveFails(j, k)
    \/ \E j \in Jobs : CompleteClosedFails(j)
    \/ \E j \in Jobs, removed \in BOOLEAN : CompleteOk(j, removed)

SpecUpload == Init /\ [][NextUpload]_vars

\* ---- complete requests on a session whose part requests have all returned
PartsReturned == \A r \in PartRequests : part[r].pc = "idle"

NextComplete ==
    \/ UploadInit
    \/ UploadInitFails
    \/ \E r \in PartRequests, files \in Batches : PartRejected(r, files)
    \/ \E r \in PartRequests, files \in Batches : PartBegin(r, files)
    \/ \E r \in PartRequests : PartStoreFile(r)
    \/ \E r \in PartRequests, created \in BOOLEAN : PartStoreFails(r, created)
    \/ \E r \in PartRequests : PartCommit(r)
    \/ \E r \in PartRequests : PartCommitFails(r)
    \/ PartsReturned /\ CompleteRejected
    \/ PartsReturned /\ CompleteFinalizingFails
    \/ PartsReturned /\ \E j \in Jobs, k \in 1..MaxDocs : CompleteMoveFails(j, k)
    \/ PartsReturned /\ \E j \in Jobs : CompleteClosedFails(j)
    \/ PartsReturned /\ \E j \in Jobs, removed \in BOOLEAN : CompleteOk(j, removed)

SpecComplete == Init /\ [][NextComplete]_vars

\* ------------------------------------------------------------------ claims
Count(seq, x) == Cardinality({i \in 1..Len(seq) : seq[i] = x})

RecoveryStep(w, j) == wpc[w] = "recover" /\ j \in todo[w] /\ j \notin todo'[w]

\* C1: no two workers are inside IndexingPipeline.run for the same job_id
\* at the same time.
C1_OneWorkerPerJob ==
    \A v, w \in Workers : (v # w /\ InRun(v) /\ InRun(w)) => cur[v] # cur[w]

Advances(a, b) ==
    \/ a = b
    \/ a = "PENDING" /\ b = "RUNNING"
    \/ a = "RUNNING" /\ b \in {"DONE", "ERROR"}

C3_RecoveryRequeues ==
    /\ [](\A w \in Workers, j \in Jobs : Count(requeued[w], j) <= 1)
    /\ [][\A w \in Workers, j \in Jobs :
            ( /\ RecoveryStep(w, j)
              /\ store[j] # Absent
              /\ store[j].status \in {"PENDING", "RUNNING"}
              /\ j \notin qsnap[w]
              /\ rawExists[j] )
            => /\ store'[j].status = "PENDING"
               /\ store'[j].started_at = None
               /\ store'[j].finished_at = None
               /\ store'[j].stats = store[j].stats
               /\ queue' = Append(queue, j)
               /\ Count(requeued'[w], j) = 1]_vars

\* a recovery has re-queued a job whose persisted state had started_at set
C3_Witness ==
    \E w, v \in Workers :
        /\ requeued[w] = <<cur[v]>>
        /\ wpc[v] = "extract"
        /\ js[v].started_at = Now
        /\ store[cur[v]].started_at = None
        /\ Count(queue, cur[v]) = 1

\* C4 as stated: the persisted processed_files (the one of the four counters
\* that JobStats declares, and so the one that reaches the store) never
\* decreases from one save of a job's state to the next.
C4_CountersNeverDecrease ==
    [][\A j \in Jobs :
         (store[j] # Absent /\ store'[j] # Absent)
             => store'[j].stats.processed_files >= store[j].stats.processed_files]_vars

ProgressCounters == {"processed_files", "embedded_chunks",
                     "graph_nodes_written", "graph_edges_written"}

\* C4 as amended: from one save to the next of a single pipeline run,
\* processed_files never decreases, and neither does embedded_chunks,
\* graph_nodes_written or graph_edges_written once the run has set it.
C4_CountersWithinRun ==
    [][\A w \in Workers :
         (wpc[w] \in RunPcs \ {"run"} /\ js'[w] # js[w]) =>
            /\ runlog'[w].saved.stats.processed_files
                   >= runlog[w].saved.stats.processed_files
            /\ \A c \in ProgressCounters :
                 HasAttr(js[w].stats, c) =>
                    /\ HasAttr(js'[w].stats, c)
                    /\ js'[w].stats[c] >= js[w].stats[c]]_vars

\* a run has counted two documents, embedded two chunks and written the graph
C4_Witness ==
    \E w \in Workers :
        /\ js[w] # Absent
        /\ js[w].stats.processed_files = 2
        /\ HasAttr(js[w].stats, "graph_nodes_written")
        /\ js[w].stats.embedded_chunks = 2
        /\ js[w].stats.graph_nodes_written = 2
        /\ js[w].stats.graph_edges_written = 2

\* C5: no exception propagates out of run() to the worker loop.
C5_RunNeverRaises ==
    \A w \in Workers : runlog[w].result # "raised"

\* C6: once schema validation of a document has failed, the run counts no
\* further document, makes no embedding call, no graph write and no vector
\* index build, and the state it persists last has status ERROR.
C6_ValidationIsFatal ==
    \A w \in Workers :
        runlog[w].cause = "validation" =>
            /\ js[w].stats.processed_files = runlog[w].fatalAt
            /\ runlog[w].embed = 0
            /\ runlog[w].graph = 0
            /\ runlog[w].vector = 0
            /\ wpc[w] \in {"except", "loop", "run", "exited"}
            /\ wpc[w] # "except" =>
                 /\ runlog[w].result = "ERROR"
                 /\ js[w].status = "ERROR"
                 /\ runlog[w].saved = to_primitive(js[w])

\* the first of two documents failed validation and the run has ended
C6_Witness ==
    \E w \in Workers :
        /\ runlog[w].cause = "validation"
        /\ runlog[w].fatalAt = 1
        /\ docs[w] = 2
        /\ runlog[w].result = "ERROR"

ErrorsOf(state, d) == {i \in 1..Len(state.errors) : state.errors[i].path = d}

\* C7: every document whose processing raised another exception has exactly
\* one JobError with its rel_path in errors (and no other document has one),
\* and unless the run fails the remaining documents are all processed.
C7_SoftErrorsContinue ==
    \A w \in Workers :
        js[w] # Absent =>
            /\ \A d \in 1..MaxDocs :
                 Cardinality(ErrorsOf(js[w], d)) = IF d \in runlog[w].soft THEN 1 ELSE 0
            /\ (runlog[w].cause = "none" /\ wpc[w] \notin {"load", "extract"})
                 => js[w].stats.processed_files = docs[w]

\* the first of two documents raised, the second was processed, the job is DONE
C7_Witness ==
    \E w \in Workers :
        /\ runlog[w].soft = {1}
        /\ docs[w] = 2
        /\ acc[w].nodes = 1
        /\ runlog[w].result = "DONE"
        /\ store[cur[w]].status = "DONE"
        /\ Len(store[cur[w]].errors) = 1

LaterPhases(cause) ==
    CASE cause = "embedding" -> {"graph", "vector"}
      [] cause = "graph" -> {"vector"}
      [] OTHER -> {}

\* C8: after embedding exhaustion, graph-write exhaustion or a vector index
\* failure no later phase is executed, and the state the run persists last
\* has status ERROR, finished_at set and the error message appended.
C8_FatalFailures ==
    \A w \in Workers :
        runlog[w].cause \in {"embedding", "graph", "vector"} =>
            /\ \A ph \in LaterPhases(runlog[w].cause) : runlog[w][ph] = 0
            /\ wpc[w] \in {"except", "loop", "run", "exited"}
            /\ wpc[w] # "except" =>
                 /\ runlog[w].result = "ERROR"
                 /\ runlog[w].saved = to_primitive(js[w])
                 /\ runlog[w].saved.status = "ERROR"
                 /\ runlog[w].saved.finished_at = Now
                 /\ Len(runlog[w].saved.errors) > 0
                 /\ runlog[w].saved.errors[Len(runlog[w].saved.errors)]
                        = JobError(runlog[w].cause, NoPath)

\* the graph write of a run failed after its chunks were embedded
C8_Witness ==
    \E w \in Workers :
        /\ runlog[w].cause = "graph"
        /\ runlog[w].embed > 0
        /\ runlog[w].result = "ERROR"
        /\ store[cur[w]].status = "ERROR"

\* C9: a run that found the raw directory of its job missing does not end
\* with status DONE.
C9_MissingRawIsError ==
    \A w \in Workers : runlog[w].missing => runlog[w].result # "DONE"

\* the order of the session statuses
StatusRank(status) ==
    CASE status = "open" -> 0
      [] status = "finalizing" -> 1
      [] status = "closed" -> 2

\* C10: the status persisted in meta.json never returns to an earlier value
\* of open -> finalizing -> closed.
C10_StatusNeverReturns ==
    [][(meta # Absent /\ meta' # Absent)
          => StatusRank(meta'.status) >= StatusRank(meta.status)]_vars

NoDuplicates(seq) == \A i, k \in 1..Len(seq) : seq[i] = seq[k] => i = k

\* C11: the persisted meta.json always has total_files = len(files), and
\* files lists no path twice.
C11_MetaConsistent ==
    meta # Absent =>
        /\ meta.total_files = Len(meta.files)
        /\ NoDuplicates(meta.files)

\* two accepted parts have recorded one file each and the session is open
C11_Witness ==
    /\ meta # Absent
    /\ meta.status = "open"
    /\ Len(meta.files) = 2
    /\ meta.segments = <<1, 1>>
    /\ tmp = Range(meta.files)
    /\ \A r \in PartRequests : part[r].pc = "idle"

\* the step sends the response of an upload_part or upload_complete request
Responds == resp' # resp /\ resp'.handler \in {"upload_part", "upload_complete"}

\* the persisted status of the session is finalizing or closed
NotOpen == meta # Absent /\ meta.status \in {"finalizing", "closed"}

\* C12: upload_part and upload_complete succeed only while the persisted
\* status is open; while it is finalizing or closed the request is answered
\* with a conflict and meta.json, tmp/, the job store and the queue stay as
\* they are.
C12_OnlyOpenSucceeds ==
    [][Responds =>
          /\ resp'.code = 200 => (meta # Absent /\ meta.status = "open")
          /\ NotOpen => (resp'.code = 409 /\ UNCHANGED <<meta, tmp, store, queue, qlog>>)]_vars

\* the step is the whole handling of a request: received and answered in it
AnsweredOnReceipt ==
    /\ Responds
    /\ resp'.handler = "upload_part" => part[resp'.request].pc = "idle"

\* C12 for a request that is received after the status has left open: it is
\* answered with a conflict and changes nothing; and no request is accepted
\* for storing unless the status it read was open.
C12_RejectedOnReceipt ==
    [][/\ (AnsweredOnReceipt /\ NotOpen)
            => (resp'.code = 409 /\ UNCHANGED <<meta, tmp, part, store, queue, qlog>>)
       /\ \A r \in PartRequests :
            (part[r].pc = "idle" /\ part'[r].pc = "store")
                => (meta # Absent /\ meta.status = "open")]_vars

\* the relative paths of a batch, in upload order
RelPaths(files) == [i \in 1..Len(files) |-> safe_relative_path(files[i]).path]

\* files, segments and total_files of a meta
Recorded(m) == <<m.files, m.segments, m.total_files>>

\* C13: an upload_part that fails leaves no file of its batch under tmp/ and
\* leaves files, segments and total_files as they were before the request;
\* one that succeeds has every file of its batch under tmp/ and appended to
\* files in upload order, with one new segments entry equal to the batch size.
C13_PartAllOrNothing ==
    [][\A r \in PartRequests :
         (resp' # resp /\ resp'.handler = "upload_part" /\ resp'.request = r) =>
            IF resp'.code = 200
            THEN /\ Range(part[r].planned) \subseteq tmp'
                 /\ part[r].planned = RelPaths(part[r].files)
                 /\ meta'.files = part[r].meta.files \o RelPaths(part[r].files)
                 /\ meta'.segments = Append(part[r].meta.segments, Len(part[r].files))
            ELSE IF part[r].pc = "idle"
                 THEN tmp' = tmp /\ meta' = meta
                 ELSE /\ Range(part[r].planned) \cap tmp' = {}
                      /\ meta' # Absent
                      /\ Recorded(meta') = Recorded(part[r].meta)]_vars

\* the step sends the 200 of an upload_complete
CompleteSucceeds == resp' # resp /\ resp'.handler = "upload_complete" /\ resp'.code = 200

\* what a successful upload_complete does with the n recorded files and job j
CompleteEffects(j) ==
    LET n == Len(meta.files) IN
    /\ meta.status = "open"
    /\ n > 0
    /\ Range(meta.files) \subseteq tmp
    /\ ~rawExists[j] /\ rawExists'[j]
    /\ rawFiles'[j] = Range(meta.files)
    /\ Cardinality(rawFiles'[j]) = n
    /\ tmp' \cap Range(meta.files) = {}
    /\ store[j] = Absent
    /\ store'[j] = to_primitive(JobState("PENDING", JobStats(n)))
    /\ \A i \in Jobs \ {j} : store'[i] = store[i] /\ rawFiles'[i] = rawFiles[i]
    /\ queue' = Append(queue, j)

\* C14 as stated: a successful upload_complete moves the n recorded files to
\* the raw directory of a new job, saves its PENDING JobState with
\* total_files = n, enqueues it once, and removes the session directory.
C14_CompleteRemovesSession ==
    [][CompleteSucceeds =>
          /\ \E j \in Jobs : CompleteEffects(j)
          /\ session' = "removed"]_vars

\* C14 as amended: the same, except that the session directory is removed
\* only if its removal succeeds; otherwise the session stays, persisted as
\* closed with total_files = n.
C14_CompleteCreatesJob ==
    [][CompleteSucceeds =>
          /\ \E j \in Jobs : CompleteEffects(j)
          /\ \/ session' = "removed" /\ meta' = Absent /\ tmp' = {}
             \/ /\ session' = "live"
                /\ meta' = [meta EXCEPT !.status = "closed"]
                /\ meta'.total_files = Len(meta.files)]_vars

\* a session of two parts was completed: both files are in the raw directory
\* of the one queued job, and the session directory is gone
C14_Witness ==
    /\ resp.handler = "upload_complete"
    /\ resp.code = 200
    /\ session = "removed"
    /\ \E j \in Jobs :
         /\ queue = <<j>>
         /\ Cardinality(rawFiles[j]) = 2
         /\ store[j].stats.total_files = 2

\* worker w's dequeue returns an item in this step
Dequeues(w) == wpc[w] = "loop" /\ wpc'[w] = "run"

\* C15: the queue holds its entries in the order of their enqueues; a dequeue
\* returns the oldest entry and removes it, to one worker only; and a dequeue
\* on an empty queue returns no job.
C15_QueueIsFifo ==
    /\ [](/\ Len(qlog.entries) = Len(queue)
          /\ \A i, k \in 1..Len(qlog.entries) :
               i < k => qlog.entries[i] < qlog.entries[k])
    /\ [][\A w \in Workers :
            /\ Dequeues(w) =>
                 /\ queue # <<>>
                 /\ cur'[w] = queue[1]
                 /\ \A i \in 1..Len(qlog.entries) : qlog.entries[1] <= qlog.entries[i]
                 /\ queue' = Tail(queue)
                 /\ qlog.entries[1] \notin Range(qlog'.entries)
                 /\ \A v \in Workers \ {w} : cur'[v] = cur[v] /\ wpc'[v] = wpc[v]
            /\ (wpc[w] = "loop" /\ queue = <<>>)
                 => (wpc'[w] = "loop" /\ cur'[w] = cur[w])]_vars

\* three entries were enqueued; one worker holds the first, the other has just
\* dequeued the second, and the third is still queued
C15_Witness ==
    \E v, w \in Workers :
        /\ v # w
        /\ InRun(v)
        /\ wpc[w] = "run"
        /\ qlog.entries = <<3>>

\* C16: once the stop flag of a worker is set, the worker eventually exits
\* its loop; it leaves the loop only from the loop condition, with every run
\* it began ended in DONE or ERROR; and it begins no loop iteration, and so
\* calls no dequeue, with the flag set.
C16_StopIsGraceful ==
    /\ \A w \in StopWorkers : stopped[w] ~> (wpc[w] = "exited")
    /\ [][\A w \in StopWorkers :
            /\ (stopped[w] /\ InRun(w))
                 => \/ InRun(w)'
                    \/ wpc'[w] = "loop" /\ runlog'[w].result \in {"DONE", "ERROR"}
            /\ wpc'[w] = "exited"
                 => /\ wpc[w] \in {"loop", "exited"}
                    /\ stopped[w]
                    /\ cur[w] # None => runlog[w].result \in {"DONE", "ERROR"}
            /\ (stopped[w] /\ wpc[w] = "loop") => wpc'[w] \in {"loop", "exited"}]_vars

\* a worker was asked to stop, finished its run as DONE and exited, leaving
\* a queued job behind
C16_Witness ==
    \E w \in StopWorkers :
        /\ stopped[w]
        /\ wpc[w] = "exited"
        /\ runlog[w].result = "DONE"
        /\ queue # <<>>

\* the workers that are inside IndexingPipeline.run for job j
Running(j) == {w \in Workers : InRun(w) /\ cur[w] = j}

\* C17: while a worker is running a job, the persisted state of that job is
\* written by that worker alone: every change of it is a save of the one
\* worker running the job, never a save of a startup recovery or of a second
\* worker.
C17_OnlyOwnerWrites ==
    [][\A j \in Jobs :
         (store'[j] # store[j] /\ Running(j) # {}) =>
            /\ ~\E w \in Workers : RecoveryStep(w, j)
            /\ \E w \in Workers :
                 /\ Running(j) = {w}
                 /\ runlog'[w].saved = store'[j]]_vars

\* C18: in every persisted JobState whose total_files is not 0,
\* processed_files <= total_files, whatever total was seeded at upload and
\* however many documents the loader returns.
C18_ProcessedWithinTotal ==
    \A j \in Jobs :
        (store[j] # Absent /\ store[j].stats.total_files # 0)
            => store[j].stats.processed_files <= store[j].stats.total_files

\* the graph write of the worker's current run returned
GraphWritten(w) == runlog[w].graph = 1 /\ runlog[w].cause # "graph"

NonNullOccurrences(k, p) ==
    {i \in 1..Len(nodes) : /\ nodes[i].key = k
                       /\ p \in DOMAIN nodes[i].properties
                       /\ nodes[i].properties[p] # None}

Last(S) == CHOOSE i \in S : \A o \in S : o <= i

\* C20: for the nodes of equal NodeKey merged so far, the node kept under
\* the key has, for each property name, the value of the last occurrence in
\* which the property was not null: every non-null property of every
\* occurrence is present and a later null never replaces it.
C20_LastNonNullWins ==
    \A k \in NodeKeys :
        (\E i \in 1..Len(nodes) : nodes[i].key = k) =>
            /\ k \in DOMAIN nodes_by_key
            /\ \A p \in PropertyNames :
                 NonNullOccurrences(k, p) # {} =>
                    /\ p \in DOMAIN nodes_by_key[k]
                    /\ nodes_by_key[k][p]
                         = nodes[Last(NonNullOccurrences(k, p))].properties[p]

\* three nodes of one key were merged: the name was "x", then "y", then
\* null, and the kept name is "y"
C20_Witness ==
    /\ Len(nodes) = 3
    /\ \A i \in 1..3 : nodes[i].key = "k1" /\ "name" \in DOMAIN nodes[i].properties
    /\ nodes[1].properties["name"] = "x"
    /\ nodes[2].properties["name"] = "y"
    /\ nodes[3].properties["name"] = None
    /\ nodes_by_key["k1"]["name"] = "y"

\* the edges of the successfully processed documents, in the order seen
RECURSIVE SeenEdges(_)
SeenEdges(edocs) ==
    IF edocs = <<>> THEN <<>>
    ELSE IF tags(Head(edocs), collection)
         THEN Head(edocs) \o SeenEdges(Tail(edocs))
         ELSE SeenEdges(Tail(edocs))

FirstOf(seen, triple) ==
    seen[CHOOSE i \in 1..Len(seen) :
            /\ EdgeKey(seen[i]) = triple
            /\ \A o \in 1..(i - 1) : EdgeKey(seen[o]) # triple]

\* C21: the edge accumulator holds one edge for each (start, type, end)
\* triple seen in a successfully processed document and nothing else, the
\* edge carries the properties of the first occurrence of the triple, and
\* its properties.collection is the job's collection.
C21_FirstEdgeKept ==
    LET seen == SeenEdges(edge_docs)
    IN /\ DOMAIN edges_keyed = {EdgeKey(seen[i]) : i \in 1..Len(seen)}
       /\ \A t \in DOMAIN edges_keyed :
            /\ edges_keyed[t]["collection"] = collection
            /\ \A n \in DOMAIN FirstOf(seen, t).properties \ {"collection"} :
                 /\ n \in DOMAIN edges_keyed[t]
                 /\ edges_keyed[t][n] = FirstOf(seen, t).properties[n]
            /\ DOMAIN edges_keyed[t] \subseteq
                   DOMAIN FirstOf(seen, t).properties \cup {"collection"}

\* a triple was seen with line "x" and, in a later document, with line "y":
\* the kept edge has line "x" and the job's collection
C21_Witness ==
    /\ Len(edge_docs) = 2
    /\ collection = "c1"
    /\ \E t \in EdgeTriples :
         /\ t \in DOMAIN edges_keyed
         /\ EdgeKey(edge_docs[1][1]) = t
         /\ edge_docs[1][1].properties # NoProperties
         /\ edge_docs[1][1].properties["line"] = "x"
         /\ tags(edge_docs[1], collection)
         /\ EdgeKey(edge_docs[2][1]) = t
         /\ edge_docs[2][1].properties # NoProperties
         /\ edge_docs[2][1].properties["line"] = "y"
         /\ tags(edge_docs[2], collection)
         /\ edges_keyed[t]["line"] = "x"

\* the batches upsert has reached
ReachedBatches == {b \in GraphBatches : writer.pc # "new" /\ b <= writer.batch}

\* C22: each graph batch is attempted at least once and at most
\* max(1, neo4j_write_max_attempts) times, every failed attempt emits one
\* neo4j_batch_failed log, and once an attempt's error has propagated out of
\* upsert no later batch is executed.
C22_RetryContract ==
    /\ \A b \in GraphBatches :
         /\ batch_trace[b].calls <= (IF writer.setting > 1 THEN writer.setting ELSE 1)
         /\ batch_trace[b].logs = batch_trace[b].failed
         /\ (b \in ReachedBatches /\ (b < writer.batch \/ writer.pc # "upsert"))
                => batch_trace[b].calls >= 1
         /\ b \notin ReachedBatches => batch_trace[b].calls = 0
    /\ writer.pc = "raised" =>
         /\ batch_trace[writer.batch].failed >= 1
         /\ \A b \in GraphBatches : b > writer.batch => batch_trace[b].calls = 0

\* the waits of the batches and the stop after a propagated error: before
\* attempt k+1 of a batch the client slept backoff * k, and no batch after
\* the one whose error propagated is sent
WaitsAndStop ==
    /\ \A b \in EmbedBatches :
         /\ Len(embed_trace[b].sleeps) \in {embed_trace[b].calls - 1, embed_trace[b].calls}
         /\ embed_trace[b].calls >= 1 =>
               \A k \in 1..(embed_trace[b].calls - 1) :
                   /\ k <= Len(embed_trace[b].sleeps)
                   /\ embed_trace[b].sleeps[k] = embedder.backoff * k
    /\ embedder.pc = "raised" =>
         \A b \in EmbedBatches : b > embedder.batch => embed_trace[b].calls = 0

\* C23 as stated: each embedding batch is sent at most
\* embedding_retry_attempts times, before attempt k+1 the client waits
\* embedding_retry_backoff * k, and after the error of the last allowed
\* attempt has propagated no later batch is sent.
C23_AtMostSettingAttempts ==
    /\ \A b \in EmbedBatches : embed_trace[b].calls <= embedder.max_attempts
    /\ WaitsAndStop

\* C23 as amended: each embedding batch is sent at most
\* max(1, embedding_retry_attempts) times (the first request is made
\* whatever the setting), with the same waits and the same stop.
C23_RetryContract ==
    /\ \A b \in EmbedBatches :
         embed_trace[b].calls
            <= (IF embedder.max_attempts > 1 THEN embedder.max_attempts ELSE 1)
    /\ WaitsAndStop

\* with three attempts allowed and backoff 2 the first batch failed three
\* times, after sleeps of 2 and 4, and the second batch was never sent
C23_Witness ==
    /\ embedder.pc = "raised"
    /\ embedder.max_attempts = 3
    /\ embedder.backoff = 2
    /\ embedder.batch = 1
    /\ embed_trace[1].calls = 3
    /\ embed_trace[1].sleeps = <<2, 4>>
    /\ embed_trace[2].calls = 0

\* C24: the rows received so far are the embeddings of the first texts in
\* input order, one row per text once the iterator has ended; every batch
\* but the last has max_embedding_batch rows; and embedded_chunks is the
\* number of rows received so far.
C24_RowsAlignWithTexts ==
    /\ Len(all_vectors) <= Len(texts)
    /\ \A i \in 1..Len(all_vectors) : all_vectors[i] = Embedding(texts[i])
    /\ batcher.pc = "returned" => Len(all_vectors) = Len(texts)
    /\ \A k \in 1..Len(yielded) :
         /\ yielded[k] >= 1
         /\ yielded[k] <= batcher.batch_size
         /\ (k < Len(yielded) \/ (batcher.pc = "iter" /\ batcher.batch_start < Len(texts)))
               => yielded[k] = batcher.batch_size
    /\ embedded = Len(all_vectors)

\* four texts came back in a batch of three and a batch of one
C24_Witness ==
    /\ batcher.pc = "returned"
    /\ texts = <<"a", "b", "b", "a">>
    /\ yielded = <<3, 1>>
    /\ embedded = 4

\* C25: before the overlap is applied every segment has at most
\* target_chars characters, and every returned segment has at most
\* target_chars + overlap_chars + 1.
C25_SegmentLengthBounded ==
    /\ chunker.pc = "assembled" =>
          \A i \in 1..Len(text_segments) : Len(text_segments[i]) <= chunker.target_chars
    /\ chunker.pc = "done" =>
          \A i \in 1..Len(text_segments) :
              Len(text_segments[i]) <= chunker.target_chars + chunker.overlap_chars + 1

\* a returned segment that the overlap inflated to the bound
C25_Witness ==
    /\ chunker.pc = "done"
    /\ chunker.overlap_chars > 0
    /\ \E i \in 1..Len(text_segments) :
          Len(text_segments[i]) = chunker.target_chars + chunker.overlap_chars + 1

\* C26: validate raises SchemaValidationError for every extraction that
\* contains an edge whose start or end node key is missing, whatever the
\* edge's relationship type and whatever additional_relationship_types is.
C26_MissingEndpointFails ==
    (/\ validation.pc = "done"
     /\ \E i \in 1..Len(validation.extraction.edges) :
           \/ validation.extraction.edges[i].start = None
           \/ validation.extraction.edges[i].end = None)
        => validation.raised # "valid"

\* C27: after build(embeddings, ids), set_metadata, save and load, the
\* loaded id list is ids in the same order, and chunks.jsonl has one line
\* per id in that order.
C27_LoadRestoresIds ==
    faiss_store.pc = "loaded" =>
        /\ faiss_store.ids = faiss_store.given
        /\ Len(chunks_jsonl) = Len(faiss_store.given)
        /\ \A i \in 1..Len(chunks_jsonl) :
              loads(chunks_jsonl[i]).chunk_id = faiss_store.given[i]

\* the nodes and relationships of g are all in h, at the same positions
KeptIn(g, h) ==
    /\ Len(g.nodes) <= Len(h.nodes)
    /\ \A i \in 1..Len(g.nodes) : h.nodes[i].key = g.nodes[i].key
    /\ \A k \in 1..Len(g.edges) : HasEdge(h.edges, g.edges[k].id)

\* C28: a second upsert with the same nodes and edges leaves the store with
\* the nodes, relationships and property values the first one left, and no
\* upsert removes a node or a relationship the store held before it.
C28_UpsertIdempotent ==
    /\ (upsert_run.pc = "returned" /\ upsert_run.runs = 2) => graph = upsert_run.first
    /\ upsert_run.pc # "new" => KeptIn(upsert_run.before, graph)

\* after the second run of an upsert the store holds node k1 with name "x",
\* a node k2 and a relationship
C28_Witness ==
    /\ upsert_run.pc = "returned"
    /\ upsert_run.runs = 2
    /\ Len(graph.nodes) = 2
    /\ graph.nodes[1] = StoredNode("k1", "x")
    /\ graph.nodes[2].key = "k2"
    /\ Len(graph.edges) = 1

\* the stats fields the specification lists for a persisted JobState
ListedStatsFields ==
    {"phase", "total_files", "processed_files", "nodes", "edges", "vector_chunks",
     "embedded_chunks", "graph_nodes_total", "graph_nodes_written",
     "graph_edges_total", "graph_edges_written", "session_segments"}

\* what get returns for the payload a worker's last save wrote
Reloaded(w) == from_primitive(runlog[w].saved)

\* C29: the state get returns after save(s) equals s in status, in every
\* listed stats field s carries, in errors and in the timestamps; get of a
\* job_id that was never saved finds nothing.
C29_SaveGetRoundTrip ==
    /\ \A w \in Workers :
         (js[w] # Absent /\ runlog[w].saved # Absent) =>
            /\ Reloaded(w).status = js[w].status
            /\ Reloaded(w).errors = js[w].errors
            /\ Reloaded(w).started_at = js[w].started_at
            /\ Reloaded(w).finished_at = js[w].finished_at
            /\ \A f \in ListedStatsFields :
                 HasAttr(js[w].stats, f) =>
                    /\ HasAttr(Reloaded(w).stats, f)
                    /\ Reloaded(w).stats[f] = js[w].stats[f]
    /\ \A j \in Jobs : apiStage[j] = "none" => get(store, j) = Absent

\* the place of a state's phase in the order of the phases; 0 before the
\* first phase is set
PhaseRank(state) ==
    IF ~HasAttr(state.stats, "phase") THEN 0
    ELSE CASE state.stats.phase = "EMBEDDING" -> 1
           [] state.stats.phase = "GRAPH_WRITE" -> 2
           [] state.stats.phase = "VECTOR_INDEX" -> 3
           [] state.stats.phase = "FINALIZING" -> 4

C31_RecoveryLeavesAlone ==
    [][\A w \in Workers, j \in Jobs :
         ( /\ RecoveryStep(w, j)
           /\ store[j] # Absent
           /\ \/ store[j].status \in {"DONE", "ERROR"}
              \/ Count(queue, j) > 0
              \/ ~rawExists[j] )
         => (store' = store /\ queue' = queue)]_vars

\* the NodeKeys of the nodes passed to the call
PassedKeys ==
    {from_dict(upsert_call.nodes[i].label, upsert_call.nodes[i].key) :
        i \in 1..Len(upsert_call.nodes)}

\* C32: no node batch commits after an edge batch has committed, and every
\* row of a committed edge batch whose start and end NodeKeys are both among
\* the nodes passed to the call binds both endpoints.
C32_NodesBeforeEdges ==
    /\ \A i, k \in 1..Len(neo4j_db.log) :
          (neo4j_db.log[i].kind = "edges" /\ neo4j_db.log[k].kind = "nodes") => k < i
    /\ \A i \in 1..Len(neo4j_db.log) :
          neo4j_db.log[i].kind = "edges" =>
             \A r \in 1..Len(neo4j_db.log[i].rows) :
                ( /\ neo4j_db.log[i].rows[r].start \in PassedKeys
                  /\ neo4j_db.log[i].rows[r].end \in PassedKeys )
                => neo4j_db.log[i].bound[r]

\* an edge from a node of label A to a node of label B was bound after the
\* batches of both labels had committed
C32_Witness ==
    /\ Len(neo4j_db.log) = 3
    /\ neo4j_db.log[1].kind = "nodes"
    /\ neo4j_db.log[2].kind = "nodes"
    /\ neo4j_db.log[1].id # neo4j_db.log[2].id
    /\ neo4j_db.log[3].kind = "edges"
    /\ neo4j_db.log[3].rows[1].start.label = "A"
    /\ neo4j_db.log[3].rows[1].start \in PassedKeys
    /\ neo4j_db.log[3].bound = <<TRUE>>

\* the groups of the call whose members differ in their key field names
Inconsistent ==
    {g \in Range(upsert_groups(upsert_call.nodes, upsert_call.edges)) :
        IF g.kind = "nodes"
        THEN \E i, k \in 1..Len(g.bucket) : DOMAIN g.bucket[i].key # DOMAIN g.bucket[k].key
        ELSE \E i, k \in 1..Len(g.bucket) :
                \/ DOMAIN to_dict(g.bucket[i].start) # DOMAIN to_dict(g.bucket[k].start)
                \/ DOMAIN to_dict(g.bucket[i].end) # DOMAIN to_dict(g.bucket[k].end)}

\* C33: no batch of a label group whose nodes differ in their key field names,
\* or of an edge group whose edges differ in the key field names of an
\* endpoint, is ever committed; a call with such a group does not return, and
\* a call that reaches such a group raises on reaching it.
C33_InconsistentGroupRaises ==
    /\ \A g \in Inconsistent :
          \A i \in 1..Len(neo4j_db.log) :
             ~(neo4j_db.log[i].kind = g.kind /\ neo4j_db.log[i].id = g.id)
    /\ upsert_call.pc = "returned" => Inconsistent = {}
    /\ \A g \in Inconsistent :
          (upsert_call.kind = g.kind /\ upsert_call.id = g.id) => upsert_call.pc = "raised"

\* a call raised on an edge group whose two edges start at nodes with
\* different key fields, after the node batches had committed
C33_Witness ==
    /\ upsert_call.pc = "raised"
    /\ upsert_call.kind = "edges"
    /\ Len(neo4j_db.log) = 2
    /\ \E g \in Inconsistent :
          /\ g.id = upsert_call.id
          /\ Len(key_names(g.bucket[1].start)) = Len(key_names(g.bucket[2].start))

\* the path is below the directory
Inside(dir, path) ==
    /\ Len(path) > Len(dir)
    /\ SubSeq(path, 1, Len(dir)) = dir

\* C34: a file name _safe_relative_path accepts becomes a path without a
\* ".." component, a leading slash or a backslash and with a non-empty last
\* component; the file is stored below the session's tmp directory and moved
\* below the job's raw directory.
C34_AcceptedPathIsSafe ==
    /\ path_call.pc \in {"planned", "stored", "moved"} =>
          /\ path_call.rel_path # <<>>
          /\ Head(path_call.rel_path) # "/"
          /\ \A i \in DOMAIN path_call.rel_path : path_call.rel_path[i] # "\\"
          /\ \A p \in Range(split_slash(path_call.rel_path)) : p # <<".", ".">>
          /\ split_slash(path_call.rel_path)[Len(split_slash(path_call.rel_path))] # <<>>
    /\ path_call.pc = "stored" => Inside(SessionTmp, path_call.target)
    /\ path_call.pc = "moved" => Inside(JobRaw, path_call.target)

\* the name \a/. was accepted as a and moved below raw
C34_Witness ==
    /\ path_call.pc = "moved"
    /\ path_call.name = <<"\\", "a", "/", ".">>
    /\ path_call.rel_path = <<"a">>
    /\ path_call.target = Append(JobRaw, <<"a">>)

\* C35: no job_id has more than one entry in the queue.
C35_OneQueueEntryPerJob ==
    \A j \in Jobs : Count(queue, j) <= 1

\* C36: a part that returns success has its files listed in meta.json, and
\* no later write of meta.json drops a listed file, so the files of every
\* acknowledged part are in the final meta.json.
C36_AckedFilesStayListed ==
    [][/\ \A r \in PartRequests :
            (part[r].pc = "store" /\ part'[r].pc = "idle" /\ resp'.code = 200)
            => Range(part[r].planned) \subseteq Range(meta'.files)
       /\ (meta # Absent /\ meta' # Absent)
            => Range(meta.files) \subseteq Range(meta'.files)]_vars

C38_QueuedJobsHaveState ==
    \A i \in 1..Len(queue) : store[queue[i]] # Absent

\* upload_complete has enqueued a job that no worker has taken yet, and a
\* recovery has enqueued a job as well
C38_Witness ==
    /\ Len(queue) = 1
    /\ apiStage[queue[1]] = "enqueued"
    /\ store[queue[1]].status = "PENDING"
    /\ \E w \in Workers : requeued[w] # <<>>

C40_QueuedJobsFinish ==
    \A w \in StopWorkers :
        ([](~stopped[w])) =>
            \A j \in Jobs :
                /\ (Count(queue, j) > 0 /\ wpc[w] # "off")
                      ~> (cur[w] = j /\ wpc[w] = "run")
                /\ (Count(queue, j) > 0 /\ wpc[w] # "off")
                      ~> (store[j] # Absent /\ store[j].status \in {"DONE", "ERROR"})

\* a job that a worker took from the queue has been saved as DONE
C40_Witness ==
    \E w \in StopWorkers :
        /\ ~stopped[w]
        /\ wpc[w] = "loop"
        /\ runlog[w].result = "DONE"
        /\ queue = <<>>
        /\ store[cur[w]].status = "DONE"

====
